---- MODULE Spec2Model ----
(***************************************************************************)
(* A model of the retro-bot chat backend (DATACOM-7): the chat turn        *)
(* pipeline of ChatService (context build, inference on a worker thread    *)
(* under a timeout, persistence through ConversationService), the          *)
(* conversation store it writes to, and the pure text functions of the     *)
(* pipeline (prompt message list, response sanitizer, persona guard).      *)
(*                                                                         *)
(* Text is modelled by TLA+ strings, on which Len, SubSeq and \o act as on *)
(* sequences of characters; positions are 1-based here and 0-based in the  *)
(* Python source.                                                          *)
(***************************************************************************)
EXTENDS Integers, Sequences, FiniteSets, TLC

VARIABLES
    store,        \* the conversations collection: id -> document
    nextId,       \* how many documents the collection has been asked to insert
    llmLoaded,    \* is_loaded() of the cached TinyLlamaLLM instance
    faults,       \* how many store or model operations have failed so far
    pc,           \* per turn: where process_chat stands
    chatRequest,  \* per turn: the message and conversation id it was called with
    chatContext,  \* per turn: the ChatContext
    worker,       \* per turn: the executor thread running generate_response
    aiResponse,   \* per turn: what _generate_ai_response returned
    chatResponse, \* per turn: the ChatResponse returned
    storeCalls,   \* per turn: the store operations it has made, with their outcomes
    input,        \* the argument of the pure function under check
    output,       \* its result, once applied
    clock,        \* what datetime.now(timezone.utc) answers next
    apiLog,       \* the ConversationService calls made by other clients, with results
    stamp,        \* per turn, the timestamp of the Message it has built and not yet written
    selfLlm       \* per turn: self.llm of its ChatService is set (is not None)

turnVars == <<store, nextId, llmLoaded, faults, pc, chatRequest, chatContext, worker,
              aiResponse, chatResponse, storeCalls>>

fnVars == <<input, output>>

svcVars == <<clock, apiLog, stamp, selfLlm>>

vars == <<store, nextId, llmLoaded, faults, pc, chatRequest, chatContext, worker,
          aiResponse, chatResponse, storeCalls, input, output, clock, apiLog, stamp,
          selfLlm>>

(***************************************************************************)
(* Python's str operations, as the source uses them.                       *)
(***************************************************************************)

\* Characters str.strip() removes (the ASCII ones that can occur in a reply).
Whitespace == {" ", "\n", "\t", "\r"}

UpperLetters == "ABCDEFGHIJKLMNOPQRSTUVWXYZ"

LowerLetters == "abcdefghijklmnopqrstuvwxyz"

CharAt(s, i) == SubSeq(s, i, i)

\* p occurs in s at position i (1-based).
OccursAt(s, p, i) == i >= 1 /\ i + Len(p) - 1 <= Len(s) /\ SubSeq(s, i, i + Len(p) - 1) = p

\* s.find(p) for a non-empty p: the 0-based index of the first occurrence, or -1.
Find(s, p) ==
    IF \E i \in 1..Len(s) : OccursAt(s, p, i)
    THEN (CHOOSE i \in 1..Len(s) :
              OccursAt(s, p, i) /\ \A j \in 1..(i - 1) : ~OccursAt(s, p, j)) - 1
    ELSE -1

\* p in s
Contains(s, p) == Find(s, p) # -1

StartsWith(s, p) == OccursAt(s, p, 1)

EndsWith(s, p) == Len(p) <= Len(s) /\ OccursAt(s, p, Len(s) - Len(p) + 1)

IsBlank(s) == \A i \in 1..Len(s) : CharAt(s, i) \in Whitespace

\* s.strip()
Strip(s) ==
    IF IsBlank(s) THEN ""
    ELSE LET first == CHOOSE i \in 1..Len(s) :
                          CharAt(s, i) \notin Whitespace
                          /\ \A j \in 1..(i - 1) : CharAt(s, j) \in Whitespace
             last  == CHOOSE i \in 1..Len(s) :
                          CharAt(s, i) \notin Whitespace
                          /\ \A j \in (i + 1)..Len(s) : CharAt(s, j) \in Whitespace
         IN  SubSeq(s, first, last)

\* s[:n] (0 <= n)
Take(s, n) == SubSeq(s, 1, IF n < Len(s) THEN n ELSE Len(s))

\* s[n:] (0 <= n)
Drop(s, n) == SubSeq(s, n + 1, Len(s))

IsUpper(c) == \E k \in 1..26 : CharAt(UpperLetters, k) = c

\* c.lower() of one character
LowerChar(c) ==
    IF IsUpper(c)
    THEN CharAt(LowerLetters, CHOOSE k \in 1..26 : CharAt(UpperLetters, k) = c)
    ELSE c

\* s.lower()
RECURSIVE Lower(_)
Lower(s) == IF s = "" THEN "" ELSE LowerChar(CharAt(s, 1)) \o Lower(Drop(s, 1))

\* s.split(sep) for a non-empty sep
RECURSIVE Split(_, _)
Split(s, sep) ==
    LET k == Find(s, sep)
    IN  IF k = -1 THEN <<s>>
        ELSE <<Take(s, k)>> \o Split(Drop(s, k + Len(sep)), sep)

\* sep.join(parts)
RECURSIVE Join(_, _)
Join(parts, sep) ==
    IF Len(parts) = 0 THEN ""
    ELSE IF Len(parts) = 1 THEN parts[1]
    ELSE parts[1] \o sep \o Join(Tail(parts), sep)

\* [line.strip() for line in parts if line.strip()]
RECURSIVE SelectNonBlank(_)
SelectNonBlank(parts) ==
    IF Len(parts) = 0 THEN <<>>
    ELSE IF Strip(parts[1]) # ""
         THEN <<Strip(parts[1])>> \o SelectNonBlank(Tail(parts))
         ELSE SelectNonBlank(Tail(parts))

Min(a, b) == IF a < b THEN a ELSE b

\* seq[start:] with Python's rule for a negative start (counted from the end).
PySliceFrom(seq, start) ==
    LET n    == Len(seq)
        from == IF start < 0 THEN (IF n + start < 0 THEN 0 ELSE n + start)
                ELSE Min(start, n)
    IN  SubSeq(seq, from + 1, n)

\* (mutant of OrElse) the fallback of `x or y` is dropped
OrElseDropped(x, y) == x

\* x or y, for strings
OrElse(x, y) == IF x # "" THEN x ELSE y

(***************************************************************************)
(* TinyLlamaLLM._clean_response: the response sanitizer.                   *)
(***************************************************************************)

assistant_patterns == <<"ASSISTANT:", "Assistant:", "assistant:">>

dialogue_patterns ==
    << "User:", "user:", "USER:",
       "Human:", "human:", "HUMAN:",
       "Assistant:", "assistant:", "ASSISTANT:",
       "\nUser", "\nuser", "\nUSER",
       "\nHuman", "\nhuman", "\nHUMAN",
       "\nAssistant", "\nassistant", "\nASSISTANT" >>

\* for pattern in assistant_patterns: if response.startswith(pattern): ...; break
StripAssistantPrefix(response) ==
    IF \E k \in 1..Len(assistant_patterns) : StartsWith(response, assistant_patterns[k])
    THEN LET k == CHOOSE k \in 1..Len(assistant_patterns) :
                      StartsWith(response, assistant_patterns[k])
                      /\ \A j \in 1..(k - 1) : ~StartsWith(response, assistant_patterns[j])
         IN  Strip(Drop(response, Len(assistant_patterns[k])))
    ELSE response

\* The 0-based index of the first occurrence of any dialogue pattern, or len(response).
EarliestCut(response) ==
    LET hits == {Find(response, dialogue_patterns[k]) : k \in 1..Len(dialogue_patterns)} \ {-1}
    IN  IF hits = {} THEN Len(response)
        ELSE CHOOSE h \in hits : \A g \in hits : h <= g

CutAtDialogueMarker(response) ==
    LET earliest_cut == EarliestCut(response)
    IN  IF earliest_cut < Len(response)
        THEN Strip(Take(response, earliest_cut))
        ELSE response

\* (faulty variant of DropTrailingQuote) only an unmatched trailing mark is dropped
DropUnmatchedTrailingQuote(response) ==
    IF EndsWith(response, "\"")
       /\ Cardinality({i \in 1..Len(response) : CharAt(response, i) = "\""}) % 2 = 1
    THEN Strip(Take(response, Len(response) - 1))
    ELSE response

DropTrailingQuote(response) ==
    IF EndsWith(response, "\"")
    THEN Strip(Take(response, Len(response) - 1))
    ELSE response

\* (faulty variant of FirstParagraph) the text is cut at its first line break
FirstLine(response) ==
    IF Contains(response, "\n")
    THEN Strip(Split(response, "\n")[1])
    ELSE response

FirstParagraph(response) ==
    IF Contains(response, "\n\n")
    THEN Strip(Split(response, "\n\n")[1])
    ELSE response

\* (faulty variant of LimitLines) the cut is made above two lines
LimitLinesAboveTwo(response) ==
    LET lines == SelectNonBlank(Split(response, "\n"))
    IN  IF Len(lines) > 2
        THEN Strip(Join(SubSeq(lines, 1, 2), "\n"))
        ELSE response

LimitLines(response) ==
    LET lines == SelectNonBlank(Split(response, "\n"))
    IN  IF Len(lines) > 3
        THEN Strip(Join(SubSeq(lines, 1, 2), "\n"))
        ELSE response

clean_response(raw_response) ==
    IF raw_response = "" \/ Strip(raw_response) = "" THEN ""
    ELSE LimitLines(FirstParagraph(DropTrailingQuote(
             CutAtDialogueMarker(StripAssistantPrefix(Strip(raw_response))))))

GenerationEmptyText == "[ERROR] Failed to generate response"

GenerationFailedText == "[ERROR] Model generation failed"

\* (mutant of CleanedOrError) an emptied text falls back to the raw text
CleanedOrRaw(decoded) ==
    IF clean_response(Strip(decoded)) # "" THEN clean_response(Strip(decoded)) ELSE Strip(decoded)

\* What generate_response returns for the decoded text `decoded`:
\* raw_response = decode(...).strip(); response = _clean_response(raw_response);
\* return response or "[ERROR] Failed to generate response"
CleanedOrError(decoded) == OrElse(clean_response(Strip(decoded)), GenerationEmptyText)

(***************************************************************************)
(* ChatService._validate_response: the persona guard.                      *)
(***************************************************************************)

ExemptSounds == <<"*BEEP*", "*WHIRRRR*", "[PROCESSING]">>

\* The length of the longest run of A-Z that starts at position i.
RECURSIVE UpperRunAt(_, _)
UpperRunAt(s, i) ==
    IF i <= Len(s) /\ IsUpper(CharAt(s, i)) THEN 1 + UpperRunAt(s, i + 1) ELSE 0

\* re.search(r"[A-Z]{n,}", s)
HasUpperRun(s, n) == \E i \in 1..Len(s) : UpperRunAt(s, i) >= n

\* The length of the match of (?<![*\[])[A-Z]{3,}(?![*\]]) that starts at position
\* i, or 0: the run is taken greedily and given back one letter when the
\* lookahead refuses its end.
CapsMatchAt(s, i) ==
    LET n        == UpperRunAt(s, i)
        behindOk == i = 1 \/ CharAt(s, i - 1) \notin {"*", "["}
        aheadOk  == i + n > Len(s) \/ CharAt(s, i + n) \notin {"*", "]"}
    IN  IF ~behindOk THEN 0
        ELSE IF n >= 3 /\ aheadOk THEN n
        ELSE IF n - 1 >= 3 THEN n - 1
        ELSE 0

\* m.group().capitalize() of a match, which begins with a capital
Capitalize(m) == IF m = "" THEN "" ELSE CharAt(m, 1) \o Lower(Drop(m, 1))

\* re.sub over s from position i on: matches are taken left to right and do not overlap.
RECURSIVE SubCaps(_, _)
SubCaps(s, i) ==
    IF i > Len(s) THEN ""
    ELSE LET k == CapsMatchAt(s, i)
         IN  IF k > 0
             THEN Capitalize(SubSeq(s, i, i + k - 1)) \o SubCaps(s, i + k)
             ELSE CharAt(s, i) \o SubCaps(s, i + 1)

\* (mutant of validate_response) any run of 3 capitals counts as shouting
validate_response_any_caps(response, user_message) ==
    IF response = "" THEN response
    ELSE IF HasUpperRun(response, 3)
            /\ ~\E k \in 1..Len(ExemptSounds) : Contains(response, ExemptSounds[k])
         THEN SubCaps(response, 1)
         ELSE response

validate_response(response, user_message) ==
    IF response = "" THEN response
    ELSE IF HasUpperRun(response, 10)
            /\ ~\E k \in 1..Len(ExemptSounds) : Contains(response, ExemptSounds[k])
         THEN SubCaps(response, 1)
         ELSE response

(***************************************************************************)
(* ChatService._format_messages_for_llm: the role-tagged message list.     *)
(***************************************************************************)

LlmMessage(role, content) == [role |-> role, content |-> content]

format_messages_for_llm(context) ==
    <<LlmMessage("system", context.system_prompt)>>
    \o [i \in 1..Len(PySliceFrom(context.message_history, -context.max_context_messages)) |->
           LlmMessage(PySliceFrom(context.message_history, -context.max_context_messages)[i].role,
                      PySliceFrom(context.message_history, -context.max_context_messages)[i].content)]
    \o <<LlmMessage("user", context.user_message)>>

(***************************************************************************)
(* The per-turn state before process_chat is called, and the state of the  *)
(* pipeline while only a pure function is exercised.                       *)
(***************************************************************************)

\* Python's None where the source has an Optional[str]
None == "<None>"

\* bool(x) of an Optional[str]
Truthy(x) == x # None /\ x # ""

\* How many process_chat calls can be in flight.
NumTurns == 2

Turns == 1..NumTurns

\* ChatContext.max_context_messages, the default process_chat runs with
DefaultMaxContextMessages == 4

\* The first sentence of ChatService.get_system_prompt(); the rest of the text
\* plays no part in any step.
get_system_prompt == "You are DATACOM-7, a helpful mainframe computer from 1978. Respond directly to the user as yourself."

ChatContext(user_message, conversation_id, message_history, max_context_messages) ==
    [ user_message         |-> user_message,
      conversation_id      |-> conversation_id,
      system_prompt        |-> get_system_prompt,
      message_history      |-> message_history,
      max_context_messages |-> max_context_messages ]

\* existed: whether the id named a stored conversation when the call was made;
\* after: the turns that had returned when the call was made
\* (kept for the properties; the code holds no such fields)
NoRequest == [message |-> "", conversation_id |-> None, existed |-> FALSE, after |-> {}]

NoContext == ChatContext("", None, <<>>, DefaultMaxContextMessages)

NoWorker == [state |-> "none", result |-> "", raised |-> FALSE, messages |-> <<>>]

NoResponse == [message |-> "", conversation_id |-> None, timestamp |-> None]

EmptyStore == [id \in {} |-> <<>>]

TurnsAtRest ==
    /\ pc = [t \in Turns |-> "idle"]
    /\ chatRequest = [t \in Turns |-> NoRequest]
    /\ chatContext = [t \in Turns |-> NoContext]
    /\ worker = [t \in Turns |-> NoWorker]
    /\ aiResponse = [t \in Turns |-> ""]
    /\ chatResponse = [t \in Turns |-> NoResponse]
    /\ storeCalls = [t \in Turns |-> <<>>]

PipelineAtRest ==
    /\ store = EmptyStore
    /\ nextId = 0
    /\ llmLoaded = FALSE
    /\ faults = 0
    /\ clock = 0
    /\ apiLog = <<>>
    /\ stamp = [t \in Turns |-> 0]
    /\ selfLlm = [t \in Turns |-> FALSE]
    /\ TurnsAtRest

NotApplied == [applied |-> FALSE]

(***************************************************************************)
(* SpecFormat: _format_messages_for_llm applied to a context whose history *)
(* has 0..MaxHistory entries and whose cap is 0..MaxCap.                   *)
(***************************************************************************)

MaxHistory == 4

MaxCap == 5

Digits == "0123456789"

\* The i-th stored message of a history: contents differ from entry to entry.
HistoryEntry(i, role) == [role |-> role, content |-> "m" \o CharAt(Digits, i + 1)]

Histories ==
    UNION { { [i \in 1..n |-> HistoryEntry(i, roles[i])] :
                roles \in [1..n -> {"user", "assistant"}] } : n \in 0..MaxHistory }

FormatInit ==
    /\ PipelineAtRest
    /\ input \in { ChatContext("now", None, h, k) : h \in Histories, k \in 0..MaxCap }
    /\ output = NotApplied

ApplyFormat ==
    /\ ~output.applied
    /\ output' = [applied |-> TRUE, value |-> format_messages_for_llm(input)]
    /\ UNCHANGED <<input, turnVars, svcVars>>

FormatNext == ApplyFormat

SpecFormat == FormatInit /\ [][FormatNext]_vars

\* C6 (as claimed): for every history length N >= 0 and every cap K >= 0 the
\* rendered list has min(N, K) + 2 entries, and its history entries are the last
\* min(N, K) entries of the history in their original order.
C6_HistoryBound ==
    output.applied =>
        LET N == Len(input.message_history)
            K == input.max_context_messages
            M == Min(N, K)
        IN  /\ Len(output.value) = M + 2
            /\ \A i \in 1..M :
                   /\ i + 1 <= Len(output.value)
                   /\ output.value[i + 1] = input.message_history[N - M + i]

(***************************************************************************)
(* SpecClean: generate_response's post-processing of a decoded text built  *)
(* from up to MaxTokens pieces.                                            *)
(***************************************************************************)

MaxTokens == 3

CleanTokens ==
    { "Hi", " ", "\n", "\"", "User:", "uSer:", "Assistant:", "\nhuman",
      "a\nb\nc\nd", "*BEEP*", "\n \n", "\nHi" }

RECURSIVE Texts(_, _)
Texts(tokens, n) ==
    IF n = 0 THEN {""}
    ELSE Texts(tokens, n - 1) \cup { s \o t : s \in Texts(tokens, n - 1), t \in tokens }

CleanInit ==
    /\ PipelineAtRest
    /\ input \in Texts(CleanTokens, MaxTokens)
    /\ output = NotApplied

\* tinyllama.py 161-170: raw_response = decode(...).strip();
\* response = self._clean_response(raw_response); return response or "[ERROR] ..."
ApplyClean ==
    /\ ~output.applied
    /\ output' = [ applied  |-> TRUE,
                   raw      |-> Strip(input),
                   cleaned  |-> clean_response(Strip(input)),
                   returned |-> CleanedOrError(input) ]
    /\ UNCHANGED <<input, turnVars, svcVars>>

CleanNext == ApplyClean

SpecClean == CleanInit /\ [][CleanNext]_vars

DialogueMarkers == {"user:", "human:", "assistant:"}

\* C8 (as claimed): the sanitized text holds no user:, human: or assistant: marker
\* in any letter case.
C8_NoMarkerAnyCase ==
    output.applied =>
        \A m \in DialogueMarkers : ~Contains(Lower(output.cleaned), m)

\* C9 (as claimed): when the decoded text is not blank and the sanitizer steps
\* reduce it to the empty string, generate_response returns the pre-sanitization
\* text.
C9_FallbackIsRawText ==
    (output.applied /\ output.raw # "" /\ output.cleaned = "") =>
        output.returned = output.raw

\* C9 (amended): in that case generate_response returns the fixed text
\* "[ERROR] Failed to generate response"; it never returns the empty string.
C9_FallbackIsErrorText ==
    output.applied =>
        /\ output.returned # ""
        /\ (output.raw # "" /\ output.cleaned = "") => output.returned = GenerationEmptyText
        /\ output.cleaned # "" => output.returned = output.cleaned

C9_Witness ==
    /\ output.applied
    /\ input = "User:Hi"
    /\ output.cleaned = ""
    /\ output.returned = GenerationEmptyText

(***************************************************************************)
(* SpecGuard: _validate_response applied to the two responses the          *)
(* specification names and to texts built from up to MaxGuardTokens pieces.*)
(***************************************************************************)

MaxGuardTokens == 3

GuardTokens ==
    { "ABCDEFGHIJ", "AB", "SOUND", " ", "*", "[", "]", "ok", "*BEEP*", "[PROCESSING]" }

NamedResponses ==
    { "SYSTEM ERROR MALFUNCTION *BEEP*",
      "THIS IS ALL CAPS WITHOUT SOUND",
      "THISISALLCAPS WITHOUT SOUND",
      "WARNING *WHIRRRR* OVERHEATINGNOW" }

GuardInit ==
    /\ PipelineAtRest
    /\ input \in NamedResponses \cup Texts(GuardTokens, MaxGuardTokens)
    /\ output = NotApplied

ApplyGuard ==
    /\ ~output.applied
    /\ output' = [applied |-> TRUE, value |-> validate_response(input, "hello")]
    /\ UNCHANGED <<input, turnVars, svcVars>>

GuardNext == ApplyGuard

SpecGuard == GuardInit /\ [][GuardNext]_vars

HasExemptSound(s) == \E k \in 1..Len(ExemptSounds) : Contains(s, ExemptSounds[k])

\* Written in capitals: some letter A-Z and no letter a-z.
InCapitals(s) ==
    /\ \E i \in 1..Len(s) : IsUpper(CharAt(s, i))
    /\ \A i \in 1..Len(s) : \A k \in 1..26 : CharAt(s, i) # CharAt(LowerLetters, k)

\* C10 (as claimed): a response with an exempt sound token is returned unmodified,
\* and the response "THIS IS ALL CAPS WITHOUT SOUND", which has no exempt token and
\* is written in capitals, is returned rewritten.
C10_CapitalsRewritten ==
    output.applied =>
        /\ HasExemptSound(input) => output.value = input
        /\ (input = "THIS IS ALL CAPS WITHOUT SOUND" /\ InCapitals(input)
              /\ ~HasExemptSound(input)) => output.value # input

\* C10 (amended): a response with an exempt sound token is returned unmodified; a
\* response with no exempt token is rewritten exactly when it holds a run of 10 or
\* more consecutive capital letters, so "THIS IS ALL CAPS WITHOUT SOUND", whose
\* longest run has 7 letters, is returned unmodified while
\* "THISISALLCAPS WITHOUT SOUND" becomes "Thisisallcaps Without Sound".
C10_RewrittenOnlyOnLongRun ==
    output.applied =>
        /\ HasExemptSound(input) => output.value = input
        /\ (~HasExemptSound(input) /\ HasUpperRun(input, 10)) => output.value # input
        /\ (~HasExemptSound(input) /\ ~HasUpperRun(input, 10)) => output.value = input
        /\ input = "THISISALLCAPS WITHOUT SOUND" => output.value = "Thisisallcaps Without Sound"

C10_Witness ==
    /\ output.applied
    /\ input = "THIS IS ALL CAPS WITHOUT SOUND"
    /\ output.value = input

(***************************************************************************)
(* The conversation store (the MongoDB collection behind ChatRepository    *)
(* and ConversationRepository).                                            *)
(***************************************************************************)

\* How many documents the collection is asked to insert in one run.
MaxConvs == 3

\* How many store or model operations fail in one run.
MaxFaults == 2

\* How many messages the conversation that exists at start holds at most.
MaxStored == 5

\* str(ObjectId) of the n-th inserted document: the store never issues an id twice.
IdOf(n) == "c" \o CharAt(Digits, n + 1)

\* An id that is no document's: one the store has not issued and will not issue.
UnknownId == "bogus"

ErrorId == "error"

\* _to_document: a new conversation holds no message
NewDocument(now) ==
    [title |-> None, messages |-> <<>>, created_at |-> now, updated_at |-> now]

\* The message dictionary add_message_to_conversation pushes (its metadata,
\* which no step reads, is left out).
MessageDict(role, content, timestamp) ==
    [role |-> role, content |-> content, timestamp |-> timestamp]

\* insert_one of a new conversation document at time now
Insert(coll, id, now) ==
    [k \in DOMAIN coll \cup {id} |-> IF k = id THEN NewDocument(now) ELSE coll[k]]

\* (faulty variant of Push) the message is put in front of the list
PushOverLast(coll, id, message_dict) ==
    [coll EXCEPT ![id].messages = IF @ = <<>> THEN <<message_dict>>
                                  ELSE [@ EXCEPT ![Len(@)] = message_dict],
                 ![id].updated_at = message_dict.timestamp]

PushFront(coll, id, message_dict) ==
    [coll EXCEPT ![id].messages = <<message_dict>> \o @,
                 ![id].updated_at = message_dict.timestamp]

\* update_one({"_id": id}, {"$push": {"messages": message_dict},
\*                          "$set": {"updated_at": message.timestamp}})
Push(coll, id, message_dict) ==
    [coll EXCEPT ![id].messages = Append(@, message_dict),
                 ![id].updated_at = message_dict.timestamp]

\* update_one({"_id": id}, {"$set": {"title": title, "updated_at": now}})
SetTitle(coll, id, title, now) ==
    [coll EXCEPT ![id].title = title, ![id].updated_at = now]

\* delete_one({"_id": id})
\* (mutant of Remove) a soft delete: the document stays, marked by its title
RemoveSoft(coll, id) == [coll EXCEPT ![id].title = "deleted"]

Remove(coll, id) == [k \in DOMAIN coll \ {id} |-> coll[k]]

\* (mutant of SliceLast) {"$slice": limit}: the first messages instead of the last
SliceFirst(messages, limit) == SubSeq(messages, 1, Min(limit, Len(messages)))

\* find_one({"_id": id}, {"messages": {"$slice": -limit}}) for limit >= 1
SliceLast(messages, limit) ==
    SubSeq(messages, (IF Len(messages) > limit THEN Len(messages) - limit ELSE 0) + 1,
           Len(messages))

\* ChatRepository.conversation_exists: an exception is logged and answered False
conversation_exists(coll, conversation_id, ok) == ok /\ conversation_id \in DOMAIN coll

\* (faulty variant of get_recent_messages) find_one without the $slice projection
get_recent_messages_unsliced(coll, conversation_id, limit, ok) ==
    IF ok /\ conversation_id \in DOMAIN coll
    THEN coll[conversation_id].messages
    ELSE <<>>

\* ChatRepository.get_recent_messages: an exception or a missing document gives []
get_recent_messages(coll, conversation_id, limit, ok) ==
    IF ok /\ conversation_id \in DOMAIN coll
    THEN SliceLast(coll[conversation_id].messages, limit)
    ELSE <<>>

\* ConversationService.get_conversation: truthy when a document was found; an
\* exception (also _prepare_id's ValueError) is logged and answered None
get_conversation(coll, conversation_id, ok) == ok /\ conversation_id \in DOMAIN coll

\* ConversationRepository.add_message_to_conversation: whether the document was
\* modified; an exception or a missing document is logged and answered None
add_message_applies(coll, conversation_id, ok) == ok /\ conversation_id \in DOMAIN coll

\* One operation a turn awaited (a store operation, load_model, the wait for
\* the worker), as the properties see it: ok is FALSE when the
\* operation raised, hit is TRUE when it found (and, for a write, changed) a
\* document, seen is the message list the document held when it was read.
StoreCall(op, id, ok, hit) == [op |-> op, id |-> id, ok |-> ok, hit |-> hit, seen |-> <<>>]

StoreRead(id, ok, hit, seen) == [op |-> "read", id |-> id, ok |-> ok, hit |-> hit, seen |-> seen]

(***************************************************************************)
(* ChatService.process_chat, one action per stretch between suspension     *)
(* points. Every request builds its own ChatService (chat/api.py).         *)
(***************************************************************************)

\* (faulty variant of TimeoutText) the timeout answers the malfunction text
TimeoutTextAsMalfunction == "[ERROR] DATACOM-7 SYSTEM MALFUNCTION. PLEASE RETRY. *BEEP*"

TimeoutText == "[TIMEOUT] DATACOM-7 PROCESSING TIMEOUT. MAGNETIC TAPE DRIVE SPINNING TOO SLOW. *WHIRRRR*"

MalfunctionText == "[ERROR] DATACOM-7 SYSTEM MALFUNCTION. PLEASE RETRY. *BEEP*"

ProcessingErrorText == "[ERROR] DATACOM-7 PROCESSING ERROR *BEEP*"

SystemErrorText == "[SYSTEM ERROR] DATACOM-7 EXPERIENCING TECHNICAL DIFFICULTIES. MAGNETIC TAPE DRIVE MALFUNCTION. *BEEP BEEP*"

\* datetime.now(timezone.utc)
UtcNow == "utcnow"

\* The texts the model decodes to in this model: a plain reply, a reply that
\* opens with a dialogue marker, and a reply that shouts.
DecodedTexts == {"Greetings. *BEEP*", "User: and then?", "OVERHEATINGNOW ok"}

\* The message of the turn in slot t.
UserMessage(t) == "q" \o CharAt(Digits, t + 1)

\* The event loop's thread is inside ThreadPoolExecutor.__exit__, which is
\* shutdown(wait=True): no coroutine runs until the worker thread has ended.
LoopBlocked == \E u \in Turns : pc[u] = "join"

\* A store or model operation may fail while fewer than MaxFaults have.
Outcomes == IF faults < MaxFaults THEN {TRUE, FALSE} ELSE {TRUE}

CountFault(ok) == faults' = IF ok THEN faults ELSE faults + 1

\* (faulty variant of SaveEntry) the save starts at the assistant message
SaveEntryAtAssistant(conversation_id) == "append_ai"

\* Where _save_chat_exchange starts: with a conversation id it looks the
\* conversation up, without one it creates a conversation.
SaveEntry(conversation_id) == IF Truthy(conversation_id) THEN "lookup" ELSE "create"

\* process_chat's return: ChatResponse(message=ai_response, conversation_id=final)
\* validates that conversation_id is a str; a failure is caught by the except
\* clause, which answers the system error text with the best known id.
ProcessChatReturn(ai, final_conversation_id, requested_id) ==
    IF final_conversation_id # None
    THEN [message |-> ai, conversation_id |-> final_conversation_id, timestamp |-> UtcNow]
    ELSE [ message         |-> SystemErrorText,
           conversation_id |-> IF Truthy(requested_id) THEN requested_id ELSE ErrorId,
           timestamp       |-> UtcNow ]

\* _save_chat_exchange's except clause: return context.conversation_id or "error"
SaveFailedId(conversation_id) == IF Truthy(conversation_id) THEN conversation_id ELSE ErrorId

\* The ids a caller can name: none, an id the store has issued, an unknown id,
\* and the "error" sentinel an earlier response may have carried.
RequestableIds == {None, UnknownId, ErrorId} \cup {IdOf(n) : n \in 1..nextId}

\* (mutant of ContextAfterExists) the id of a missing conversation is kept
ContextAfterExistsKeepsId(ctx, found) == ctx

\* Lines 136, 142-144: the context keeps its id when the conversation exists and
\* drops it otherwise.
ContextAfterExists(ctx, found) ==
    IF found THEN ctx ELSE [ctx EXCEPT !.conversation_id = None]

\* process_chat up to its first suspension point (lines 87-92, 129-136), on a
\* ChatService whose self.llm is set (llm is TRUE) or is None.
BeginChat(t, conversation_id, llm) ==
    /\ pc[t] = "idle"
    /\ ~LoopBlocked
    /\ \A u \in Turns : u < t => pc[u] # "idle"
    /\ chatRequest' = [chatRequest EXCEPT ![t] =
                          [message |-> UserMessage(t), conversation_id |-> conversation_id,
                           existed |-> conversation_id \in DOMAIN store,
                           after |-> {u \in Turns : pc[u] = "done"}]]
    /\ chatContext' = [chatContext EXCEPT ![t] =
                          ChatContext(UserMessage(t), conversation_id, <<>>,
                                      DefaultMaxContextMessages)]
    /\ pc' = [pc EXCEPT ![t] = IF Truthy(conversation_id) THEN "exists" ELSE "generate"]
    /\ selfLlm' = [selfLlm EXCEPT ![t] = llm]
    /\ UNCHANGED <<store, nextId, llmLoaded, faults, worker, aiResponse, chatResponse,
                   storeCalls, fnVars, clock, apiLog, stamp>>

\* chat/api.py 24-25: every request builds a ChatService, whose self.llm is
\* None (service.py 19-22), and calls process_chat on it.
ProcessChat(t, conversation_id) == BeginChat(t, conversation_id, FALSE)

\* process_chat called again on the ChatService that served turn u, once that
\* turn has returned: self.llm is what turn u left.
ProcessChatReusing(t, conversation_id, u) ==
    /\ pc[u] = "done"
    /\ BeginChat(t, conversation_id, selfLlm[u])

\* await self.chat_repository.conversation_exists(conversation_id) (lines 136, 142-144)
ConversationExists(t, ok) ==
    /\ pc[t] = "exists"
    /\ ~LoopBlocked
    /\ LET id    == chatContext[t].conversation_id
           found == conversation_exists(store, id, ok)
       IN  /\ storeCalls' = [storeCalls EXCEPT ![t] = Append(@, StoreCall("exists", id, ok, found))]
           /\ chatContext' = [chatContext EXCEPT ![t] = ContextAfterExists(@, found)]
           /\ pc' = [pc EXCEPT ![t] = IF found THEN "read" ELSE "generate"]
    /\ CountFault(ok)
    /\ UNCHANGED <<store, nextId, llmLoaded, chatRequest, worker, aiResponse,
                   chatResponse, fnVars, svcVars>>

\* await self.chat_repository.get_recent_messages(...) (lines 137-141)
GetRecentMessages(t, ok) ==
    /\ pc[t] = "read"
    /\ ~LoopBlocked
    /\ LET id     == chatContext[t].conversation_id
           recent == get_recent_messages(store, id, chatContext[t].max_context_messages, ok)
       IN  /\ storeCalls' = [storeCalls EXCEPT ![t] =
                                Append(@, StoreRead(id, ok, ok /\ id \in DOMAIN store,
                                                    IF id \in DOMAIN store
                                                    THEN store[id].messages ELSE <<>>))]
           /\ chatContext' = [chatContext EXCEPT ![t].message_history = recent]
    /\ pc' = [pc EXCEPT ![t] = "generate"]
    /\ CountFault(ok)
    /\ UNCHANGED <<store, nextId, llmLoaded, chatRequest, worker, aiResponse,
                   chatResponse, fnVars, svcVars>>

\* generate_response's result on the worker thread: the sanitized text (or its
\* fallback), or the fixed text of its except clause when generation raises.
generate_response(decoded, ok) ==
    IF ok THEN CleanedOrError(decoded) ELSE GenerationFailedText

\* (faulty variant of LlmIsLoaded) every ChatService gets an instance of its
\* own, not yet loaded: get_assistant_llm() without its cache
LlmIsLoadedPerService(t) == FALSE

\* Lines 161-165: self.llm is None in the fresh ChatService of every request, so
\* get_assistant_llm() is called; under lru_cache(maxsize=1) it answers the one
\* instance of the process, whose is_loaded() is llmLoaded.
LlmIsLoaded(t) == llmLoaded

\* A step of a turn that is no store operation (the prompt messages were
\* formatted, the persona guard ran), logged with the operations it awaited.
StageCall(op) == StoreCall(op, None, TRUE, FALSE)

\* The load_model() call of a turn: ok is FALSE when it raised, hit is TRUE
\* when the instance was loaded already as the call was made.
LoadCall(ok) == StoreCall("load", None, ok, llmLoaded)

\* Lines 160-178 without a failing load: when self.llm is None it takes the
\* cached instance of get_assistant_llm() and load_model() (which never
\* suspends) loads it if need be; when self.llm is set nothing is loaded. Then
\* the messages are formatted and generate_response is handed to an executor
\* thread.
DispatchInference(t) ==
    /\ pc[t] = "generate"
    /\ ~LoopBlocked
    /\ LET loads == ~selfLlm[t] /\ ~LlmIsLoaded(t)
       IN  /\ llmLoaded' = (llmLoaded \/ loads)
           /\ storeCalls' = [storeCalls EXCEPT ![t] =
                                Append(IF loads THEN Append(@, LoadCall(TRUE)) ELSE @,
                                       StageCall("format"))]
    /\ selfLlm' = [selfLlm EXCEPT ![t] = TRUE]
    /\ worker' = [worker EXCEPT ![t] =
                     [state |-> "running", result |-> "", raised |-> FALSE,
                      messages |-> format_messages_for_llm(chatContext[t])]]
    /\ pc' = [pc EXCEPT ![t] = "await"]
    /\ UNCHANGED <<store, nextId, faults, chatRequest, chatContext, aiResponse,
                   chatResponse, fnVars, clock, apiLog, stamp>>

AfterGenerationFailureRetry(conversation_id) == "generate"

AfterGenerationFailureReturn(conversation_id) == "done"

\* What follows the except clause of _generate_ai_response: process_chat
\* goes on to _save_chat_exchange (lines 94-96).
AfterGenerationFailure(conversation_id) == SaveEntry(conversation_id)

\* Lines 161-166, 189-191: self.llm is None and takes the cached instance, which
\* is not loaded; load_model() raises, and the except clause answers the
\* malfunction text.
LoadModelFails(t) ==
    /\ pc[t] = "generate"
    /\ ~LoopBlocked
    /\ ~selfLlm[t]
    /\ ~LlmIsLoaded(t)
    /\ faults < MaxFaults
    /\ faults' = faults + 1
    /\ selfLlm' = [selfLlm EXCEPT ![t] = TRUE]
    /\ storeCalls' = [storeCalls EXCEPT ![t] = Append(@, LoadCall(FALSE))]
    /\ aiResponse' = [aiResponse EXCEPT ![t] = MalfunctionText]
    /\ pc' = [pc EXCEPT ![t] = AfterGenerationFailure(chatContext[t].conversation_id)]
    /\ UNCHANGED <<store, nextId, llmLoaded, chatRequest, chatContext, worker,
                   chatResponse, fnVars, clock, apiLog, stamp>>

\* The executor thread runs generate_response to its end; it runs whether or not
\* the event loop does.
WorkerFinish(t, decoded, ok) ==
    /\ worker[t].state = "running"
    /\ llmLoaded
    /\ worker' = [worker EXCEPT ![t].state = "done",
                                ![t].raised = ~ok,
                                ![t].result = generate_response(decoded, ok)]
    /\ CountFault(ok)
    /\ UNCHANGED <<store, nextId, llmLoaded, pc, chatRequest, chatContext, aiResponse,
                   chatResponse, storeCalls, fnVars, svcVars>>

\* tinyllama.py 127-128: the instance is not loaded, and generate_response raises
\* RuntimeError("Model not loaded...") on the executor thread.
WorkerRefuses(t) ==
    /\ worker[t].state = "running"
    /\ ~llmLoaded
    /\ worker' = [worker EXCEPT ![t].state = "failed", ![t].raised = TRUE]
    /\ UNCHANGED <<store, nextId, llmLoaded, faults, pc, chatRequest, chatContext,
                   aiResponse, chatResponse, storeCalls, fnVars, svcVars>>

\* Lines 173-178, 189-191: wait_for raises what the worker raised, the with block
\* ends, and the except clause answers the malfunction text.
InferenceRaised(t) ==
    /\ pc[t] = "await"
    /\ ~LoopBlocked
    /\ worker[t].state = "failed"
    /\ aiResponse' = [aiResponse EXCEPT ![t] = MalfunctionText]
    /\ pc' = [pc EXCEPT ![t] = AfterGenerationFailure(chatContext[t].conversation_id)]
    /\ UNCHANGED <<store, nextId, llmLoaded, faults, chatRequest, chatContext, worker,
                   chatResponse, storeCalls, fnVars, svcVars>>

\* Lines 173-184: wait_for returns the worker's result before the timeout, the
\* with block ends (the thread has ended), and the persona guard runs.
InferenceDone(t) ==
    /\ pc[t] = "await"
    /\ ~LoopBlocked
    /\ worker[t].state = "done"
    /\ aiResponse' = [aiResponse EXCEPT ![t] =
                         OrElse(validate_response(worker[t].result, chatContext[t].user_message),
                                ProcessingErrorText)]
    /\ storeCalls' = [storeCalls EXCEPT ![t] = Append(@, StageCall("guard"))]
    /\ pc' = [pc EXCEPT ![t] = SaveEntry(chatContext[t].conversation_id)]
    /\ UNCHANGED <<store, nextId, llmLoaded, faults, chatRequest, chatContext, worker,
                   chatResponse, fnVars, svcVars>>

\* Line 177: the timeout fires while the worker runs; wait_for raises TimeoutError
\* inside the with block, whose exit is executor.shutdown(wait=True).
InferenceTimeout(t) ==
    /\ pc[t] = "await"
    /\ ~LoopBlocked
    /\ worker[t].state = "running"
    /\ storeCalls' = [storeCalls EXCEPT ![t] =
                         Append(@, StoreCall("timeout", None, FALSE, FALSE))]
    /\ pc' = [pc EXCEPT ![t] = "join"]
    /\ UNCHANGED <<store, nextId, llmLoaded, faults, chatRequest, chatContext, worker,
                   aiResponse, chatResponse, fnVars, svcVars>>

\* Lines 172, 186-188: shutdown(wait=True) returns once the worker thread has
\* ended; then the except clause answers the timeout text.
ExecutorJoined(t) ==
    /\ pc[t] = "join"
    /\ worker[t].state \in {"done", "failed"}
    /\ aiResponse' = [aiResponse EXCEPT ![t] = TimeoutText]
    /\ pc' = [pc EXCEPT ![t] = SaveEntry(chatContext[t].conversation_id)]
    /\ UNCHANGED <<store, nextId, llmLoaded, faults, chatRequest, chatContext, worker,
                   chatResponse, storeCalls, fnVars, svcVars>>

\* Lines 234-238: await conversation_service.get_conversation(context.conversation_id);
\* when it is found, lines 244-247 build user_message with the present time.
GetConversation(t, ok) ==
    /\ pc[t] = "lookup"
    /\ ~LoopBlocked
    /\ LET id    == chatContext[t].conversation_id
           found == get_conversation(store, id, ok)
       IN  /\ storeCalls' = [storeCalls EXCEPT ![t] = Append(@, StoreCall("get", id, ok, found))]
           /\ pc' = [pc EXCEPT ![t] = IF found THEN "append_user" ELSE "create"]
           /\ stamp' = IF found THEN [stamp EXCEPT ![t] = clock] ELSE stamp
           /\ clock' = IF found THEN clock + 1 ELSE clock
    /\ CountFault(ok)
    /\ UNCHANGED <<store, nextId, llmLoaded, chatRequest, chatContext, worker, aiResponse,
                   chatResponse, fnVars, apiLog, selfLlm>>

\* Lines 239-243: await conversation_service.create_conversation() inserts a
\* document and the context takes its id; lines 244-247 build user_message
\* with the time after the insert.
CreateConversation(t) ==
    /\ pc[t] = "create"
    /\ ~LoopBlocked
    /\ nextId < MaxConvs
    /\ LET id == IdOf(nextId + 1)
       IN  /\ store' = Insert(store, id, clock)
           /\ chatContext' = [chatContext EXCEPT ![t].conversation_id = id]
           /\ storeCalls' = [storeCalls EXCEPT ![t] = Append(@, StoreCall("create", id, TRUE, TRUE))]
    /\ nextId' = nextId + 1
    /\ stamp' = [stamp EXCEPT ![t] = clock + 1]
    /\ clock' = clock + 2
    /\ pc' = [pc EXCEPT ![t] = "append_user"]
    /\ UNCHANGED <<llmLoaded, faults, chatRequest, worker, aiResponse, chatResponse, fnVars,
                   apiLog, selfLlm>>

\* Lines 239-243, 265-267, 96-103: create_conversation() raises; the except clause
\* of _save_chat_exchange answers context.conversation_id or "error", and
\* process_chat returns.
CreateConversationFails(t) ==
    /\ pc[t] = "create"
    /\ ~LoopBlocked
    /\ faults < MaxFaults
    /\ faults' = faults + 1
    /\ storeCalls' = [storeCalls EXCEPT ![t] =
                         Append(@, StoreCall("create", None, FALSE, FALSE))]
    /\ chatResponse' = [chatResponse EXCEPT ![t] =
                           ProcessChatReturn(aiResponse[t],
                                             SaveFailedId(chatContext[t].conversation_id),
                                             chatRequest[t].conversation_id)]
    /\ pc' = [pc EXCEPT ![t] = "done"]
    /\ UNCHANGED <<store, nextId, llmLoaded, chatRequest, chatContext, worker, aiResponse,
                   fnVars, svcVars>>

\* Lines 248-257: await conversation_service.add_message(id, user_message)
\* writes the message built at lines 244-247, its result is not looked at, and
\* ai_message is built with the present time.
AddUserMessage(t, ok) ==
    /\ pc[t] = "append_user"
    /\ ~LoopBlocked
    /\ LET id      == chatContext[t].conversation_id
           applies == add_message_applies(store, id, ok)
       IN  /\ store' = IF applies
                       THEN Push(store, id,
                                 MessageDict("user", chatContext[t].user_message, stamp[t]))
                       ELSE store
           /\ storeCalls' = [storeCalls EXCEPT ![t] =
                                Append(@, StoreCall("append_user", id, ok, applies))]
    /\ CountFault(ok)
    /\ stamp' = [stamp EXCEPT ![t] = clock]
    /\ clock' = clock + 1
    /\ pc' = [pc EXCEPT ![t] = "append_ai"]
    /\ UNCHANGED <<nextId, llmLoaded, chatRequest, chatContext, worker, aiResponse,
                   chatResponse, fnVars, apiLog, selfLlm>>

\* Lines 253-263, 96-103: await conversation_service.add_message(id, ai_message)
\* writes the message built at lines 253-257, return context.conversation_id,
\* and process_chat returns.
AddAiMessage(t, ok) ==
    /\ pc[t] = "append_ai"
    /\ ~LoopBlocked
    /\ LET id      == chatContext[t].conversation_id
           applies == add_message_applies(store, id, ok)
       IN  /\ store' = IF applies
                       THEN Push(store, id, MessageDict("assistant", aiResponse[t], stamp[t]))
                       ELSE store
           /\ storeCalls' = [storeCalls EXCEPT ![t] =
                                Append(@, StoreCall("append_ai", id, ok, applies))]
           /\ chatResponse' = [chatResponse EXCEPT ![t] =
                                  ProcessChatReturn(aiResponse[t], id,
                                                    chatRequest[t].conversation_id)]
    /\ CountFault(ok)
    /\ stamp' = [stamp EXCEPT ![t] = 0]
    /\ pc' = [pc EXCEPT ![t] = "done"]
    /\ UNCHANGED <<nextId, llmLoaded, chatRequest, chatContext, worker, aiResponse, fnVars,
                   clock, apiLog, selfLlm>>

\* ConversationService.delete_conversation, called by another client while turns
\* run: a hard delete of an existing document.
DeleteConversation(id) ==
    /\ ~LoopBlocked
    /\ id \in DOMAIN store
    /\ store' = Remove(store, id)
    /\ UNCHANGED <<nextId, llmLoaded, faults, pc, chatRequest, chatContext, worker,
                   aiResponse, chatResponse, storeCalls, fnVars, svcVars>>

\* The conversation that exists when the process starts, with its n messages.
StoredConversation(n) ==
    [id \in {IdOf(1)} |->
        [ title      |-> None,
          messages   |-> [i \in 1..n |->
                            MessageDict(IF i % 2 = 1 THEN "user" ELSE "assistant",
                                        "m" \o CharAt(Digits, i + 1), i)],
          created_at |-> 0,
          updated_at |-> n ]]

\* One chat request on a store that holds one conversation of 0..MaxStored
\* messages; the other turn slots stay unused.
Init ==
    /\ store \in {StoredConversation(n) : n \in 0..MaxStored}
    /\ nextId = 1
    /\ llmLoaded = FALSE
    /\ faults = 0
    /\ pc = [t \in Turns |-> IF t = 1 THEN "idle" ELSE "off"]
    /\ chatRequest = [t \in Turns |-> NoRequest]
    /\ chatContext = [t \in Turns |-> NoContext]
    /\ worker = [t \in Turns |-> NoWorker]
    /\ aiResponse = [t \in Turns |-> ""]
    /\ chatResponse = [t \in Turns |-> NoResponse]
    /\ storeCalls = [t \in Turns |-> <<>>]
    /\ input = ""
    /\ output = NotApplied
    /\ clock = MaxStored + 1
    /\ apiLog = <<>>
    /\ stamp = [t \in Turns |-> 0]
    /\ selfLlm = [t \in Turns |-> FALSE]

Next ==
    \/ \E t \in Turns :
          \/ \E id \in RequestableIds : ProcessChat(t, id)
          \/ \E ok \in Outcomes : ConversationExists(t, ok)
          \/ \E ok \in Outcomes : GetRecentMessages(t, ok)
          \/ DispatchInference(t)
          \/ LoadModelFails(t)
          \/ \E decoded \in DecodedTexts, ok \in Outcomes : WorkerFinish(t, decoded, ok)
          \/ InferenceDone(t)
          \/ InferenceTimeout(t)
          \/ ExecutorJoined(t)
          \/ \E ok \in Outcomes : GetConversation(t, ok)
          \/ CreateConversation(t)
          \/ CreateConversationFails(t)
          \/ \E ok \in Outcomes : AddUserMessage(t, ok)
          \/ \E ok \in Outcomes : AddAiMessage(t, ok)
    \/ \E id \in DOMAIN store : DeleteConversation(id)

Spec == Init /\ [][Next]_vars

(***************************************************************************)
(* SpecTurns: NumTurns chat requests in one process, in sequence or         *)
(* overlapping, on a store that holds one conversation of one message;     *)
(* the model decodes to one text.                                          *)
(***************************************************************************)

\* The decoded text of the turns of SpecTurns.
PlainText == "Greetings. *BEEP*"

InitTurns ==
    /\ store = StoredConversation(1)
    /\ nextId = 1
    /\ llmLoaded = FALSE
    /\ faults = 0
    /\ TurnsAtRest
    /\ input = ""
    /\ output = NotApplied
    /\ clock = MaxStored + 1
    /\ apiLog = <<>>
    /\ stamp = [t \in Turns |-> 0]
    /\ selfLlm = [t \in Turns |-> FALSE]

\* The steps turn t takes on the event loop.
LoopStep(t) ==
    \/ \E id \in {None, IdOf(1)} : ProcessChat(t, id)
    \/ \E ok \in Outcomes : ConversationExists(t, ok)
    \/ \E ok \in Outcomes : GetRecentMessages(t, ok)
    \/ DispatchInference(t)
    \/ LoadModelFails(t)
    \/ InferenceDone(t)
    \/ InferenceTimeout(t)
    \/ ExecutorJoined(t)
    \/ \E ok \in Outcomes : GetConversation(t, ok)
    \/ CreateConversation(t)
    \/ CreateConversationFails(t)
    \/ \E ok \in Outcomes : AddUserMessage(t, ok)
    \/ \E ok \in Outcomes : AddAiMessage(t, ok)

NextTurns ==
    \E t \in Turns :
        \/ LoopStep(t)
        \/ \E ok \in Outcomes : WorkerFinish(t, PlainText, ok)

SpecTurns == InitTurns /\ [][NextTurns]_vars

\* ---------------------------------------------------------------------------
\* Turns on ChatService instances that are kept and called again: a turn runs
\* on a ChatService of its own or on the one a returned turn ran on.

NextReuse ==
    \E t \in Turns :
        \/ LoopStep(t)
        \/ \E u \in Turns \ {t} : ProcessChatReusing(t, IdOf(1), u)
        \/ \E ok \in Outcomes : WorkerFinish(t, PlainText, ok)
        \/ WorkerRefuses(t)
        \/ InferenceRaised(t)

SpecReuse == InitTurns /\ [][NextReuse]_vars

(***************************************************************************)
(* SpecStore: one chat request and up to MaxApiCalls calls of other        *)
(* clients to ConversationService (create_conversation, get_conversation,  *)
(* add_message, update_conversation_title, delete_conversation), in any    *)
(* order and interleaving, on a store that holds one conversation of one   *)
(* message; the model is loaded and at most one operation fails.           *)
(***************************************************************************)

MaxApiCalls == 3

\* A call of another client: the operation, the id it names, what it returned
\* ("Conversation", "True", "False", None or "raise").
ApiCall(op, id, result) == [op |-> op, id |-> id, result |-> result]

\* The ids the collection has given out.
IssuedIds == {IdOf(n) : n \in 1..nextId}

\* The title another client sets.
NewTitle == "Tape log"

\* The times a caller's Message can carry: an early one, or the present one
\* (the default of Message.timestamp).
MessageTimes == {0, clock}

\* ConversationService.create_conversation (service.py 18-35, base.py 37-52):
\* a document is inserted, or the failure is raised again.
ApiCreateConversation(ok) ==
    /\ ~LoopBlocked
    /\ Len(apiLog) < MaxApiCalls
    /\ nextId < MaxConvs
    /\ LET id == IdOf(nextId + 1)
       IN  /\ store' = IF ok THEN Insert(store, id, clock) ELSE store
           /\ nextId' = IF ok THEN nextId + 1 ELSE nextId
           /\ apiLog' = Append(apiLog, ApiCall("create", IF ok THEN id ELSE None,
                                               IF ok THEN "Conversation" ELSE "raise"))
    /\ clock' = clock + 1
    /\ CountFault(ok)
    /\ UNCHANGED <<llmLoaded, pc, chatRequest, chatContext, worker, aiResponse,
                   chatResponse, storeCalls, fnVars, stamp, selfLlm>>

\* ConversationService.get_conversation (service.py 37-53, base.py 54-67)
ApiGetConversation(id, ok) ==
    /\ ~LoopBlocked
    /\ Len(apiLog) < MaxApiCalls
    /\ apiLog' = Append(apiLog, ApiCall("get", id,
                                        IF get_conversation(store, id, ok)
                                        THEN "Conversation" ELSE None))
    /\ CountFault(ok)
    /\ UNCHANGED <<store, nextId, llmLoaded, pc, chatRequest, chatContext, worker,
                   aiResponse, chatResponse, storeCalls, fnVars, clock, stamp, selfLlm>>

\* ConversationService.add_message (service.py 135-160, repository.py 133-164)
\* with a user message of the given timestamp; the read-back of the updated
\* document is taken to succeed.
ApiAddMessage(id, timestamp, ok) ==
    /\ ~LoopBlocked
    /\ Len(apiLog) < MaxApiCalls
    /\ LET applies == add_message_applies(store, id, ok)
       IN  /\ store' = IF applies
                       THEN Push(store, id, MessageDict("user", "note", timestamp))
                       ELSE store
           /\ apiLog' = Append(apiLog, ApiCall("add", id,
                                               IF applies THEN "Conversation" ELSE None))
    /\ clock' = clock + 1
    /\ CountFault(ok)
    /\ UNCHANGED <<nextId, llmLoaded, pc, chatRequest, chatContext, worker, aiResponse,
                   chatResponse, storeCalls, fnVars, stamp, selfLlm>>

\* ConversationService.update_conversation_title (service.py 95-114,
\* repository.py 111-131)
ApiUpdateTitle(id, ok) ==
    /\ ~LoopBlocked
    /\ Len(apiLog) < MaxApiCalls
    /\ LET applies == ok /\ id \in DOMAIN store
       IN  /\ store' = IF applies THEN SetTitle(store, id, NewTitle, clock) ELSE store
           /\ apiLog' = Append(apiLog, ApiCall("title", id,
                                               IF applies THEN "Conversation" ELSE None))
    /\ clock' = clock + 1
    /\ CountFault(ok)
    /\ UNCHANGED <<nextId, llmLoaded, pc, chatRequest, chatContext, worker, aiResponse,
                   chatResponse, storeCalls, fnVars, stamp, selfLlm>>

\* ConversationService.delete_conversation (service.py 116-133, base.py 90-103)
ApiDeleteConversation(id, ok) ==
    /\ ~LoopBlocked
    /\ Len(apiLog) < MaxApiCalls
    /\ LET applies == ok /\ id \in DOMAIN store
       IN  /\ store' = IF applies THEN Remove(store, id) ELSE store
           /\ apiLog' = Append(apiLog, ApiCall("delete", id,
                                               IF applies THEN "True" ELSE "False"))
    /\ CountFault(ok)
    /\ UNCHANGED <<nextId, llmLoaded, pc, chatRequest, chatContext, worker, aiResponse,
                   chatResponse, storeCalls, fnVars, clock, stamp, selfLlm>>

InitStore ==
    /\ store = StoredConversation(1)
    /\ nextId = 1
    /\ llmLoaded = TRUE
    /\ faults = MaxFaults - 1
    /\ pc = [t \in Turns |-> IF t = 1 THEN "idle" ELSE "off"]
    /\ chatRequest = [t \in Turns |-> NoRequest]
    /\ chatContext = [t \in Turns |-> NoContext]
    /\ worker = [t \in Turns |-> NoWorker]
    /\ aiResponse = [t \in Turns |-> ""]
    /\ chatResponse = [t \in Turns |-> NoResponse]
    /\ storeCalls = [t \in Turns |-> <<>>]
    /\ input = ""
    /\ output = NotApplied
    /\ clock = MaxStored + 1
    /\ apiLog = <<>>
    /\ stamp = [t \in Turns |-> 0]
    /\ selfLlm = [t \in Turns |-> FALSE]

\* The steps of a turn whose inference ends in time.
TurnStep(t) ==
    \/ \E id \in {None, IdOf(1)} : ProcessChat(t, id)
    \/ \E ok \in Outcomes : ConversationExists(t, ok)
    \/ \E ok \in Outcomes : GetRecentMessages(t, ok)
    \/ DispatchInference(t)
    \/ WorkerFinish(t, PlainText, TRUE)
    \/ InferenceDone(t)
    \/ \E ok \in Outcomes : GetConversation(t, ok)
    \/ CreateConversation(t)
    \/ CreateConversationFails(t)
    \/ \E ok \in Outcomes : AddUserMessage(t, ok)
    \/ \E ok \in Outcomes : AddAiMessage(t, ok)

ApiStep ==
    \/ \E ok \in Outcomes : ApiCreateConversation(ok)
    \/ \E id \in IssuedIds, ok \in Outcomes : ApiGetConversation(id, ok)
    \/ \E id \in IssuedIds, timestamp \in MessageTimes, ok \in Outcomes :
          ApiAddMessage(id, timestamp, ok)
    \/ \E id \in IssuedIds, ok \in Outcomes : ApiUpdateTitle(id, ok)
    \/ \E id \in IssuedIds, ok \in Outcomes : ApiDeleteConversation(id, ok)

NextStore == (\E t \in Turns : TurnStep(t)) \/ ApiStep

SpecStore == InitStore /\ [][NextStore]_vars

\* ---------------------------------------------------------------------------
\* Properties of a chat turn
\* ---------------------------------------------------------------------------

\* The turn has returned its ChatResponse.
Returned(t) == pc[t] = "done"

\* The store operations of the turn with one of the names in ops, in call order.
CallsOf(t, ops) == SelectSeq(storeCalls[t], LAMBDA c : c.op \in ops)

\* The appends of the turn that changed a stored conversation, in call order.
MessagesWritten(t) ==
    SelectSeq(storeCalls[t], LAMBDA c : c.op \in {"append_user", "append_ai"} /\ c.hit)

\* A store operation with one of the names in ops raised during the turn.
Raised(t, ops) == \E i \in 1..Len(storeCalls[t]) :
                     storeCalls[t][i].op \in ops /\ ~storeCalls[t][i].ok

\* The id of the conversation the turn created, or None when it created none.
CreatedId(t) ==
    LET made == SelectSeq(storeCalls[t], LAMBDA c : c.op = "create" /\ c.ok)
    IN  IF made = <<>> THEN None ELSE made[1].id

\* The last Min(N, K) of the N messages the history read saw, oldest first, as
\* stored.
LastSeen(seen, K) ==
    LET N == Len(seen)
        n == Min(N, K)
    IN  [i \in 1..n |-> seen[N - n + i]]

\* C1: whatever the stages of a turn do (a store operation raises, the model
\* fails to load, generation raises or times out, the sanitizer or the guard
\* empties the text, persistence fails), the turn's response is well formed: a
\* non-empty message, a non-empty string conversation id and a timestamp; and a
\* turn that has not returned has produced no response.
C1_ResponseWellFormed ==
    \A t \in Turns :
        IF Returned(t)
        THEN /\ chatResponse[t].message \notin {"", None}
             /\ chatResponse[t].conversation_id \notin {"", None}
             /\ chatResponse[t].timestamp # None
        ELSE chatResponse[t] = NoResponse

\* C1 witness: a turn whose generation timed out and whose conversation could
\* not be created has returned the timeout text with the "error" id.
C1_Witness ==
    \E t \in Turns :
        /\ Returned(t)
        /\ chatResponse[t].message = TimeoutText
        /\ chatResponse[t].conversation_id = ErrorId
        /\ Raised(t, {"create"})

\* C2 (as stated): once the timeout has fired, the turn goes on to answer the
\* timeout text without waiting for the worker: its next step is enabled while
\* the worker still runs.
C2_TimeoutReturnsWithoutWorker ==
    \A t \in Turns :
        (pc[t] = "join" /\ worker[t].state = "running") => ENABLED ExecutorJoined(t)

\* C3 (as stated): a turn that returned a conversation id other than "error"
\* wrote exactly two messages to that conversation, the user message and then
\* the assistant message.
C3_TwoMessagesWritten ==
    \A t \in Turns :
        (Returned(t) /\ chatResponse[t].conversation_id # ErrorId) =>
            LET id == chatResponse[t].conversation_id
            IN  MessagesWritten(t) = << StoreCall("append_user", id, TRUE, TRUE),
                                        StoreCall("append_ai", id, TRUE, TRUE) >>

\* C4 (as stated): when the lookup, the creation or an append of PERSIST raises,
\* the turn returns the generated text unchanged and the "error" id.
C4_PersistFailureGivesErrorId ==
    \A t \in Turns :
        (Returned(t) /\ Raised(t, {"get", "create", "append_user", "append_ai"})) =>
            /\ chatResponse[t].message = aiResponse[t]
            /\ chatResponse[t].conversation_id = ErrorId

\* The call named a conversation id that no stored conversation had.
AskedForMissing(t) ==
    /\ Truthy(chatRequest[t].conversation_id)
    /\ ~chatRequest[t].existed

\* C5 (as stated): a turn called with an id that names no conversation uses an
\* empty history, returns the id of the conversation it created, which differs
\* from the requested id, and the requested id is not created.
C5_MissingIdGetsNewConversation ==
    \A t \in Turns :
        (Returned(t) /\ AskedForMissing(t)) =>
            /\ chatContext[t].message_history = <<>>
            /\ CreatedId(t) # None
            /\ chatResponse[t].conversation_id = CreatedId(t)
            /\ chatResponse[t].conversation_id # chatRequest[t].conversation_id
            /\ chatRequest[t].conversation_id \notin DOMAIN store

\* C5 (amended): a turn called with an id that names no conversation uses an
\* empty history and never creates the requested id; it returns the id of the
\* conversation it created, which differs from the requested id, or, when the
\* creation raised, the "error" id.
C5_MissingIdGetsNewConversationOrError ==
    \A t \in Turns :
        (Returned(t) /\ AskedForMissing(t)) =>
            /\ chatContext[t].message_history = <<>>
            /\ chatRequest[t].conversation_id \notin DOMAIN store
            /\ IF CreatedId(t) # None
               THEN /\ chatResponse[t].conversation_id = CreatedId(t)
                    /\ chatResponse[t].conversation_id # chatRequest[t].conversation_id
               ELSE /\ Raised(t, {"create"})
                    /\ chatResponse[t].conversation_id = ErrorId

\* C5 witnesses: one turn asked for an unknown id and returned the id of a new
\* conversation, another one met a failing creation and returned "error".
C5_Witness ==
    \E t \in Turns :
        /\ Returned(t)
        /\ chatRequest[t].conversation_id = UnknownId
        /\ CreatedId(t) # None
        /\ chatResponse[t].conversation_id = CreatedId(t)
        /\ Len(MessagesWritten(t)) = 2

\* The call named a stored conversation, and it is still stored when the turn
\* returns (a deleted conversation does not come back).
AskedForExisting(t) ==
    /\ chatRequest[t].existed
    /\ chatRequest[t].conversation_id \in DOMAIN store

\* What C7 says of a turn: its history is the last min(N, max_context_messages)
\* messages the conversation held, oldest first, its context keeps the requested
\* id, and it returns the requested id.
KeepsConversation(t) ==
    LET reads == CallsOf(t, {"read"})
    IN  /\ Len(reads) = 1
        /\ reads[1].id = chatRequest[t].conversation_id
        /\ chatContext[t].message_history = LastSeen(reads[1].seen, DefaultMaxContextMessages)
        /\ chatContext[t].conversation_id = chatRequest[t].conversation_id
        /\ chatResponse[t].conversation_id = chatRequest[t].conversation_id

LoadCallsMade ==
    UNION {{<<t, i>> : i \in {j \in DOMAIN storeCalls[t] : storeCalls[t][j].op = "load"}} :
           t \in Turns}

\* C11: over all sequences and interleavings of turns in one process, at most
\* one load_model() call completes; no turn calls load_model() once the cached
\* instance reports is_loaded (so every turn works on that one instance); and
\* a turn that reached inference did so on the loaded instance.
C11_ModelLoadedOnce ==
    /\ Cardinality({c \in LoadCallsMade : storeCalls[c[1]][c[2]].ok}) <= 1
    /\ \A c \in LoadCallsMade : ~storeCalls[c[1]][c[2]].hit
    /\ (\E c \in LoadCallsMade : storeCalls[c[1]][c[2]].ok) => llmLoaded
    /\ \A t \in Turns : worker[t].state # "none" => llmLoaded

\* C11 witness: two turns ran inference to its end and returned; one of them
\* loaded the model, the other one made no load_model() call.
C11_Witness ==
    \E t, u \in Turns :
        /\ t # u
        /\ Returned(t) /\ Returned(u)
        /\ CallsOf(t, {"load"}) # <<>> /\ CallsOf(t, {"load"})[1].ok
        /\ CallsOf(u, {"load"}) = <<>>
        /\ worker[t].state = "done" /\ worker[u].state = "done"

\* The turn is at one of its steps on the event loop.
AtLoopStep(u) ==
    pc[u] \in {"exists", "read", "generate", "lookup", "create", "append_user", "append_ai"}

\* C12 (as stated): while the worker of one turn runs, before or after that
\* turn's timeout, another turn's context build, dispatch and persistence steps
\* stay enabled.
C12_LoopFreeWhileWorkerRuns ==
    \A t, u \in Turns :
        (t # u /\ worker[t].state = "running" /\ AtLoopStep(u)) => ENABLED LoopStep(u)

\* The inference of the turn timed out.
TimedOut(t) == CallsOf(t, {"timeout"}) # <<>>

\* The turn's load_model() call raised.
LoadFailed(t) == Raised(t, {"load"})

\* generate_response raised on the worker and the turn got its result in time.
GenerationRaised(t) == ~TimedOut(t) /\ worker[t].state = "done" /\ worker[t].raised

\* C13: a turn whose inference timed out answers the timeout text; a turn
\* whose load_model() or generation raised answers a failure text that is not
\* the timeout text; and in each case the turn goes on to persistence and
\* returns that text as an ordinary response, not the system error response.
C13_InferenceOutcomesDistinct ==
    \A t \in Turns :
        (Returned(t) /\ (TimedOut(t) \/ LoadFailed(t) \/ GenerationRaised(t))) =>
            /\ TimedOut(t) => chatResponse[t].message = TimeoutText
            /\ LoadFailed(t) => chatResponse[t].message = MalfunctionText
            /\ GenerationRaised(t) => chatResponse[t].message = GenerationFailedText
            /\ ~TimedOut(t) => chatResponse[t].message # TimeoutText
            /\ chatResponse[t].message = aiResponse[t]
            /\ chatResponse[t].message # SystemErrorText
            /\ CallsOf(t, {"get", "create"}) # <<>>

\* C13 witness: a turn whose generation raised has returned the generation
\* failure text after both of its messages were stored.
C13_Witness ==
    \E t \in Turns :
        /\ Returned(t)
        /\ GenerationRaised(t)
        /\ chatResponse[t].message = GenerationFailedText
        /\ Len(MessagesWritten(t)) = 2

(***************************************************************************)
(* SpecPrompt: the prompt text of a context, format_messages applied to    *)
(* the list _format_messages_for_llm makes of it.  The contexts hold a     *)
(* history of 0..MaxPromptHistory entries (within the default cap, as      *)
(* _build_chat_context leaves it), with recognized and unrecognized roles  *)
(* and with contents of one line and of several.                           *)
(***************************************************************************)

MaxPromptHistory == 2

\* (faulty variant of RoleLabel) the label is the role as stored
RoleLabelAsStored(role) == role

\* Lines 94-99 (and 111-116): the label of a recognized role.
RoleLabel(role) ==
    CASE role = "system"    -> "System"
      [] role = "user"      -> "User"
      [] role = "assistant" -> "Assistant"

\* Lines 91-99: f"{Label}: {content}" for each message of a recognized role;
\* the if/elif chain has no else, so any other message adds nothing.
RECURSIVE FormattedLines(_)
FormattedLines(messages) ==
    IF messages = <<>> THEN <<>>
    ELSE (IF messages[1].role \in {"system", "user", "assistant"}
          THEN << RoleLabel(messages[1].role) \o ": " \o messages[1].content >>
          ELSE <<>>)
         \o FormattedLines(Tail(messages))

\* (faulty variant of format_messages) a message of any other role is
\* rendered under its own role name
RECURSIVE FormattedLinesAnyRole(_)
FormattedLinesAnyRole(messages) ==
    IF messages = <<>> THEN <<>>
    ELSE << (IF messages[1].role \in {"system", "user", "assistant"}
             THEN RoleLabel(messages[1].role) ELSE messages[1].role)
            \o ": " \o messages[1].content >>
         \o FormattedLinesAnyRole(Tail(messages))

format_messages_any_role(messages) ==
    Join(FormattedLinesAnyRole(messages) \o <<"Assistant:">>, "\n")

\* TinyLlamaLLM.format_messages (both branches of the model-name test are the
\* same code; messages made by _format_messages_for_llm always carry role and
\* content, so the except clause is not entered).
format_messages(messages) == Join(FormattedLines(messages) \o <<"Assistant:">>, "\n")

\* A system prompt of several lines, built like get_system_prompt(): blank
\* lines, headings and example lines that open with "User:".
LongSystemPrompt == "You are DATACOM-7.\n\nEXAMPLES:\nUser: \"Who are you?\""

PromptContents == {"hi", "yes\nAssistant:"}

PromptRoles == {"system", "user", "assistant", "tool"}

PromptHistories ==
    UNION { [1..n -> {LlmMessage(r, c) : r \in PromptRoles, c \in PromptContents}] :
            n \in 0..MaxPromptHistory }

PromptInit ==
    /\ PipelineAtRest
    /\ input \in { [ChatContext(um, None, h, DefaultMaxContextMessages)
                      EXCEPT !.system_prompt = sp] :
                   um \in PromptContents, h \in PromptHistories,
                   sp \in {get_system_prompt, LongSystemPrompt} }
    /\ output = NotApplied

ApplyPrompt ==
    /\ ~output.applied
    /\ output' = [applied |-> TRUE,
                  value |-> format_messages(format_messages_for_llm(input))]
    /\ UNCHANGED <<input, turnVars, svcVars>>

PromptNext == ApplyPrompt

SpecPrompt == PromptInit /\ [][PromptNext]_vars

\* The history entries of a context whose role is system, user or assistant.
Recognized(history) == SelectSeq(history, LAMBDA e : e.role \in {"system", "user", "assistant"})

\* The label the prompt is expected to give a role.
ExpectedLabel(role) ==
    IF role = "system" THEN "System" ELSE IF role = "user" THEN "User" ELSE "Assistant"

\* The parts a prompt is expected to have, in order: the system part, one part
\* per recognized history entry, the part of the current user message, the cue.
ExpectedParts(context) ==
    << "System: " \o context.system_prompt >>
    \o [i \in 1..Len(Recognized(context.message_history)) |->
           ExpectedLabel(Recognized(context.message_history)[i].role) \o ": "
           \o Recognized(context.message_history)[i].content]
    \o << "User: " \o context.user_message, "Assistant:" >>

\* How many lines of the text are the bare cue.
CueLines(text) == Cardinality({i \in DOMAIN Split(text, "\n") : Split(text, "\n")[i] = "Assistant:"})

\* No text of the context holds a line break.
SingleLined(context) ==
    /\ ~Contains(context.system_prompt, "\n")
    /\ ~Contains(context.user_message, "\n")
    /\ \A i \in DOMAIN context.message_history :
          ~Contains(context.message_history[i].content, "\n")

\* C14 (as stated): for every context (of recognized roles) the lines of the
\* prompt are, in order, one System line, one line per history entry, one User
\* line and the cue; the cue is the last line and is a line of the prompt
\* exactly once.
C14_PromptLines ==
    (output.applied /\ Recognized(input.message_history) = input.message_history) =>
        /\ Split(output.value, "\n") = ExpectedParts(input)
        /\ CueLines(output.value) = 1

\* C14 (amended): for every context the prompt is its parts joined by line
\* breaks, in order: "System: " and the system prompt, "<Role>: " and the
\* content of each recognized history entry, "User: " and the user message, and
\* the cue "Assistant:", which is always the last line; when no text of the
\* context holds a line break, each part is one line and the cue is a line of
\* the prompt exactly once.
C14_PromptParts ==
    output.applied =>
        /\ output.value = Join(ExpectedParts(input), "\n")
        /\ Split(output.value, "\n")[Len(Split(output.value, "\n"))] = "Assistant:"
        /\ SingleLined(input) =>
              /\ Split(output.value, "\n") = ExpectedParts(input)
              /\ CueLines(output.value) = 1

\* C14 witness: a context of two one-line history entries was rendered to four
\* lines and the cue.
C14_Witness ==
    /\ output.applied
    /\ SingleLined(input)
    /\ Len(input.message_history) = 2
    /\ Recognized(input.message_history) = input.message_history
    /\ Len(Split(output.value, "\n")) = 5

\* C15: a history entry of an unrecognized role adds nothing to the prompt and
\* raises nothing: the prompt is the prompt of the same context without its
\* unrecognized entries.
C15_UnrecognizedRoleDropped ==
    output.applied =>
        output.value = format_messages(format_messages_for_llm(
                           [input EXCEPT !.message_history = Recognized(@)]))

\* C15 witness: a history of an unrecognized entry followed by a recognized
\* one was rendered.
C15_Witness ==
    /\ output.applied
    /\ Len(input.message_history) = 2
    /\ input.message_history[1].role = "tool"
    /\ input.message_history[2].role = "assistant"
    /\ Contains(output.value, "Assistant: hi\n")

\* ---------------------------------------------------------------------------
\* The sanitizer on clean text (SpecClean)
\* ---------------------------------------------------------------------------

\* The text is clean as C16 has it: no surrounding whitespace, no leading
\* assistant marker, no user:/human:/assistant: marker in any letter case, no
\* blank-line paragraph break, at most 3 lines.
CleanAsStated(text) ==
    /\ Strip(text) = text
    /\ \A m \in DialogueMarkers : ~Contains(Lower(text), m)
    /\ ~Contains(text, "\n\n")
    /\ Len(Split(text, "\n")) <= 3

\* C16 (as stated): the sanitizer returns a clean text unchanged.
C16_CleanTextUnchanged ==
    (output.applied /\ CleanAsStated(input)) => output.cleaned = input

\* C16 (amended): the sanitizer returns a clean text unchanged when, besides,
\* the text does not end with a double quote and no line after its first one
\* begins with User, Human or Assistant (capitalized, lower case or upper case).
C16_CleanUnquotedTextUnchanged ==
    ( /\ output.applied
      /\ CleanAsStated(input)
      /\ ~EndsWith(input, "\"")
      /\ \A k \in 1..Len(dialogue_patterns) : ~Contains(input, dialogue_patterns[k]) )
    => output.cleaned = input

\* C16 witness: a clean text of two lines went through the sanitizer.
C16_Witness ==
    /\ output.applied
    /\ input = "Hi\n*BEEP*"
    /\ output.cleaned = "Hi\n*BEEP*"

(***************************************************************************)
(* SpecApi: the /chat route, chat_with_datacom7, on every outcome the      *)
(* service call can hand it: a ChatResponse, or an exception of some class *)
(* with some text.                                                         *)
(***************************************************************************)

MaxErrorTokens == 2

\* status.HTTP_400_BAD_REQUEST and status.HTTP_500_INTERNAL_SERVER_ERROR
HTTP_400_BAD_REQUEST == 400

HTTP_500_INTERNAL_SERVER_ERROR == 500

HTTP_200_OK == 200

\* Line 36: the detail of the 500 response.
GenericDetail == "DATACOM-7 system malfunction. Please retry."

\* The exception classes the service call can raise, and the ones among them
\* that `except ValueError` catches (ValueError and its subclasses).
ExceptionClasses == {"ValueError", "UnicodeDecodeError", "RuntimeError", "KeyError", "Exception"}

ValueErrors == {"ValueError", "UnicodeDecodeError"}

ErrorTokens == {"Invalid ObjectId: ", "bogus", "Database not initialized", " at mongodb://db:27017",
                "DATACOM-7", "retry", "."}

\* (faulty variant of chat_with_datacom7) the 500 response carries str(e)
chat_with_datacom7_echo(outcome) ==
    IF outcome.kind = "response"
    THEN [status |-> HTTP_200_OK, detail |-> "", body |-> outcome.response]
    ELSE IF outcome.class \in ValueErrors
    THEN [status |-> HTTP_400_BAD_REQUEST, detail |-> outcome.text, body |-> NoResponse]
    ELSE [status |-> HTTP_500_INTERNAL_SERVER_ERROR, detail |-> outcome.text, body |-> NoResponse]

\* Lines 22-37: the response is returned as it is; a ValueError becomes
\* HTTPException(400, detail=str(e)), any other Exception becomes
\* HTTPException(500, detail=<fixed text>).
chat_with_datacom7(outcome) ==
    IF outcome.kind = "response"
    THEN [status |-> HTTP_200_OK, detail |-> "", body |-> outcome.response]
    ELSE IF outcome.class \in ValueErrors
    THEN [status |-> HTTP_400_BAD_REQUEST, detail |-> outcome.text, body |-> NoResponse]
    ELSE [status |-> HTTP_500_INTERNAL_SERVER_ERROR, detail |-> GenericDetail, body |-> NoResponse]

ServiceOutcomes ==
    { [kind |-> "response", class |-> "", text |-> "",
       response |-> [message |-> m, conversation_id |-> id, timestamp |-> UtcNow]] :
          m \in {PlainText, TimeoutText, SystemErrorText}, id \in {IdOf(1), ErrorId} }
    \cup
    { [kind |-> "raise", class |-> c, text |-> x, response |-> NoResponse] :
          c \in ExceptionClasses, x \in Texts(ErrorTokens, MaxErrorTokens) }

ApiInit ==
    /\ PipelineAtRest
    /\ input \in ServiceOutcomes
    /\ output = NotApplied

ApplyApi ==
    /\ ~output.applied
    /\ output' = [applied |-> TRUE, value |-> chat_with_datacom7(input)]
    /\ UNCHANGED <<input, turnVars, svcVars>>

ApiNext == ApplyApi

SpecApi == ApiInit /\ [][ApiNext]_vars

\* The route answered a failure of the service call.
Failed == output.applied /\ input.kind = "raise"

\* The detail carries the exception's text (a text that the fixed detail does
\* not happen to hold itself).
Leaks(detail, text) ==
    /\ text # ""
    /\ ~Contains(GenericDetail, text)
    /\ Contains(detail, text)

\* C17 (as stated): a ValueError yields 400, any other exception yields 500
\* with the one fixed detail, and no failure response carries the exception's
\* text.
C17_NoErrorTextLeaks ==
    Failed =>
        /\ input.class \in ValueErrors => output.value.status = 400
        /\ input.class \notin ValueErrors =>
              /\ output.value.status = 500
              /\ output.value.detail = GenericDetail
        /\ ~Leaks(output.value.detail, input.text)

\* C17 (amended): a ValueError yields 400 whose detail is the exception's own
\* text; any other exception yields 500 with the one fixed detail, which does
\* not carry the exception's text.
C17_OnlyValueErrorTextShown ==
    Failed =>
        IF input.class \in ValueErrors
        THEN /\ output.value.status = 400
             /\ output.value.detail = input.text
        ELSE /\ output.value.status = 500
             /\ output.value.detail = GenericDetail
             /\ ~Leaks(output.value.detail, input.text)

\* C17 witness: a RuntimeError with a text of the database was answered with
\* 500 and the fixed detail.
C17_Witness ==
    /\ Failed
    /\ input.class = "RuntimeError"
    /\ input.text = "Database not initialized at mongodb://db:27017"
    /\ output.value.status = 500
    /\ output.value.detail = GenericDetail

\* ---------------------------------------------------------------------------
\* Properties of the stored conversations (SpecStore)

\* xs is the beginning of ys: same entries, same order.
IsPrefixOf(xs, ys) == Len(xs) <= Len(ys) /\ SubSeq(ys, 1, Len(xs)) = xs

\* The conversations that a step neither creates nor deletes.
LiveAcross == DOMAIN store \cap DOMAIN store'

\* The step is a call of another client with the given operation name.
ApiStepOf(op) == Len(apiLog') = Len(apiLog) + 1 /\ apiLog'[Len(apiLog')].op = op

\* The calls of other clients made so far with the given operation, id and result.
ApiCallsMade(op, id, result) ==
    {i \in 1..Len(apiLog) : apiLog[i] = ApiCall(op, id, result)}

\* C18: the message list of a live conversation is append-only: over every step
\* of create_conversation, add_message, update_conversation_title, the other
\* calls and the chat turn, the messages a conversation held before the step
\* are a prefix of the messages it holds after it, and a title update leaves
\* every message list as it was.
C18_MessagesAppendOnly ==
    [][/\ \A id \in LiveAcross : IsPrefixOf(store[id].messages, store'[id].messages)
       /\ ApiStepOf("title") =>
             \A id \in LiveAcross : store'[id].messages = store[id].messages]_vars

\* C18 witness: the stored conversation was given a title, took a message from
\* another client and both messages of a chat turn, and holds all four.
C18_Witness ==
    /\ IdOf(1) \in DOMAIN store
    /\ store[IdOf(1)].title = NewTitle
    /\ ApiCallsMade("add", IdOf(1), "Conversation") # {}
    /\ Returned(1)
    /\ Len(MessagesWritten(1)) = 2
    /\ Len(store[IdOf(1)].messages) = 4

\* The timestamps of a message list never step back.
Chronological(messages) ==
    \A i \in 1..(Len(messages) - 1) : messages[i].timestamp <= messages[i + 1].timestamp

\* C19: updated_at of a conversation never decreases and its messages stay in
\* non-decreasing timestamp order, over every step of add_message (with any
\* message timestamp), update_conversation_title and the appends of a chat turn.
C19_UpdatedAtNeverDecreases ==
    [][\A id \in LiveAcross :
          /\ store[id].updated_at <= store'[id].updated_at
          /\ Chronological(store[id].messages) => Chronological(store'[id].messages)]_vars

\* The ids that a delete_conversation of another client has answered True for.
DeletedIds == {id \in IssuedIds : ApiCallsMade("delete", id, "True") # {}}

\* The calls of other clients that named id after a delete_conversation(id)
\* had returned True.
CallsAfterDelete(id) ==
    {j \in 1..Len(apiLog) :
        /\ apiLog[j].id = id
        /\ \E i \in ApiCallsMade("delete", id, "True") : i < j}

\* What a call that names a conversation that is not there answers.
AnswerWhenMissing(op) == IF op = "delete" THEN "False" ELSE None

\* The turn named a conversation that had been deleted before the turn began.
NamedDeleted(t) ==
    /\ AskedForMissing(t)
    /\ chatRequest[t].conversation_id \in DeletedIds

\* The appends the turn awaited, hit or not, in call order.
Appends(t) == CallsOf(t, {"append_user", "append_ai"})

\* After delete_conversation(id) returned True the conversation is gone for good,
\* and every later get_conversation, add_message, update_conversation_title
\* and delete_conversation of id answers as for a missing conversation.
HardDeleted ==
    \A id \in DeletedIds :
        /\ id \notin DOMAIN store
        /\ \A j \in CallsAfterDelete(id) : apiLog[j].result = AnswerWhenMissing(apiLog[j].op)

\* C20 (as stated): deletion is a hard delete, and a chat turn that names a
\* deleted id persists both of its messages in a new conversation with a
\* different id.
C20_DeletedThenTurnPersistsElsewhere ==
    /\ HardDeleted
    /\ \A t \in Turns :
          (Returned(t) /\ NamedDeleted(t)) =>
              /\ CreatedId(t) # None
              /\ CreatedId(t) # chatRequest[t].conversation_id
              /\ Len(MessagesWritten(t)) = 2
              /\ \A i \in 1..2 : MessagesWritten(t)[i].id = CreatedId(t)

\* C20 (amended): deletion is a hard delete, and a chat turn that names a
\* deleted id never writes to that id: it creates a conversation with a
\* different id, returns that id and directs both appends at it, or, when the
\* creation raised, returns "error" and persists nothing.
C20_DeletedThenTurnNeverWritesThere ==
    /\ HardDeleted
    /\ \A t \in Turns :
          (Returned(t) /\ NamedDeleted(t)) =>
              IF CreatedId(t) # None
              THEN /\ CreatedId(t) # chatRequest[t].conversation_id
                   /\ chatResponse[t].conversation_id = CreatedId(t)
                   /\ Len(Appends(t)) = 2
                   /\ \A i \in 1..2 : Appends(t)[i].id = CreatedId(t)
              ELSE /\ Raised(t, {"create"})
                   /\ chatResponse[t].conversation_id = ErrorId
                   /\ Appends(t) = <<>>

\* C20 witness: the stored conversation was deleted, a later add_message
\* answered None and a second delete False, and a turn that named it returned
\* with both messages in the conversation it created.
C20_Witness ==
    /\ apiLog = << ApiCall("delete", IdOf(1), "True"),
                   ApiCall("add", IdOf(1), None),
                   ApiCall("delete", IdOf(1), "False") >>
    /\ Returned(1)
    /\ NamedDeleted(1)
    /\ CreatedId(1) \in DOMAIN store
    /\ Len(store[CreatedId(1)].messages) = 2

\* ---------------------------------------------------------------------------
\* Properties of the stages of a turn

\* Turn t is in _build_chat_context (or about to enter it).
BuildingContext(t) == pc[t] \in {"idle", "exists", "read"}

\* What the context stage of turn t has asked of the store so far: at most one
\* existence check; a read only after a check that found the conversation, and
\* of no more than max_context_messages messages; nothing when no id was given.
ContextCallsBounded(t) ==
    LET checks == CallsOf(t, {"exists"})
        reads  == CallsOf(t, {"read"})
    IN  /\ Len(checks) <= 1
        /\ Len(reads) <= 1
        /\ Len(reads) = 1 => (Len(checks) = 1 /\ checks[1].hit)
        /\ Len(chatContext[t].message_history) <= chatContext[t].max_context_messages
        /\ ~Truthy(chatRequest[t].conversation_id) => (checks = <<>> /\ reads = <<>>)
        /\ BuildingContext(t) =>
              CallsOf(t, {"get", "create", "append_user", "append_ai"}) = <<>>

\* C21: the context stage leaves the store unchanged: every step of
\* _build_chat_context leaves the conversations as they were, it makes at most
\* one existence check and, only when the conversation exists, one read of at
\* most max_context_messages messages, and without a conversation id it makes
\* no store call.
C21_BuildContextReadsOnly ==
    /\ [](\A t \in Turns : ContextCallsBounded(t))
    /\ [][\A t \in Turns :
             (BuildingContext(t) /\ pc'[t] # pc[t]) => (store' = store /\ nextId' = nextId)]_vars

\* C21 witness: a turn has built its context from a conversation that holds
\* more messages than the cap, with one check and one read.
C21_Witness ==
    \E t \in Turns :
        /\ pc[t] = "generate"
        /\ Len(CallsOf(t, {"exists"})) = 1
        /\ Len(CallsOf(t, {"read"})) = 1
        /\ Len(CallsOf(t, {"read"})[1].seen) > chatContext[t].max_context_messages
        /\ Len(chatContext[t].message_history) = chatContext[t].max_context_messages

\* The stages of a turn between START and DONE, in their order.
Stages == <<"BUILD_CONTEXT", "FORMAT", "INFER", "SANITIZE", "PERSIST">>

\* The place of a stage in that order.
StageIndex(stage) == CHOOSE i \in 1..Len(Stages) : Stages[i] = stage

\* The stage a logged step belongs to, by its place (load_model, which the
\* code calls before it formats, is left out).
StageOf(op) ==
    StageIndex(CASE op \in {"exists", "read"} -> "BUILD_CONTEXT"
                 [] op = "format" -> "FORMAT"
                 [] op = "timeout" -> "INFER"
                 [] op = "guard" -> "SANITIZE"
                 [] op \in {"get", "create", "append_user", "append_ai"} -> "PERSIST")

\* The logged steps of the turn that belong to a stage, in the order made.
StageCalls(t) == SelectSeq(storeCalls[t], LAMBDA c : c.op # "load")

\* The steps of the turn were made in stage order, and none twice.
StagesInOrder(t) ==
    LET calls == StageCalls(t)
    IN  /\ \A i \in 1..(Len(calls) - 1) : StageOf(calls[i].op) <= StageOf(calls[i + 1].op)
        /\ \A op \in {"exists", "read", "format", "timeout", "guard", "create",
                      "append_user", "append_ai"} : Len(CallsOf(t, {op})) <= 1

\* The turn knows how its inference ended: _generate_ai_response has returned.
OutcomeKnown(t) == aiResponse[t] # "" /\ worker[t].state # "running"

\* No operation of PERSIST was started before the outcome of the inference
\* was known, and the user message is appended before the assistant message.
PersistsAfterOutcome(t) ==
    /\ CallsOf(t, {"get", "create", "append_user", "append_ai"}) # <<>> => OutcomeKnown(t)
    /\ \A i \in 1..Len(Appends(t)) :
          Appends(t)[i].op = IF i = 1 THEN "append_user" ELSE "append_ai"
    /\ Returned(t) => CallsOf(t, {"get", "create"}) # <<>>

\* The turn returned an ordinary response, not the system error response.
ReachedDone(t) == Returned(t) /\ chatResponse[t].message # SystemErrorText

\* C22 (as stated): the stages of a turn run in the order BUILD_CONTEXT, FORMAT,
\* INFER, SANITIZE, PERSIST, none repeated, and a turn that reaches DONE has
\* skipped none of them: it formatted the prompt, ran the inference and the
\* guard; no store write is made before the inference outcome is known, and
\* the user message is appended before the assistant message.
C22_StagesInOrderNoneSkipped ==
    \A t \in Turns :
        /\ StagesInOrder(t)
        /\ PersistsAfterOutcome(t)
        /\ ReachedDone(t) =>
              /\ Len(CallsOf(t, {"format"})) = 1
              /\ worker[t].state = "done"
              /\ Len(CallsOf(t, {"guard"})) = 1

\* C22 (amended): the stages of a turn run in the order BUILD_CONTEXT, FORMAT,
\* INFER, SANITIZE, PERSIST, none repeated; a turn that reaches DONE ran
\* BUILD_CONTEXT, the generation and PERSIST, where a failed load_model skips
\* FORMAT, INFER and SANITIZE and a timeout skips SANITIZE; no store write is
\* made before the inference outcome is known, and the user message is
\* appended before the assistant message.
C22_StagesInOrderSkippedOnlyOnFailure ==
    \A t \in Turns :
        /\ StagesInOrder(t)
        /\ PersistsAfterOutcome(t)
        /\ ReachedDone(t) =>
              /\ Len(CallsOf(t, {"format"})) = IF LoadFailed(t) THEN 0 ELSE 1
              /\ worker[t].state = IF LoadFailed(t) THEN "none" ELSE "done"
              /\ Len(CallsOf(t, {"guard"})) = IF LoadFailed(t) \/ TimedOut(t) THEN 0 ELSE 1

\* C22 witness: a turn on a stored conversation has gone through every stage
\* and stored both messages.
C22_Witness ==
    \E t \in Turns :
        /\ ReachedDone(t)
        /\ Len(CallsOf(t, {"exists", "read"})) = 2
        /\ Len(CallsOf(t, {"format", "guard"})) = 2
        /\ Len(MessagesWritten(t)) = 2

\* The executor threads that are running generate_response.
RunningWorkers == {t \in Turns : worker[t].state = "running"}

\* C23: the inference workers running at the same time (abandoned ones
\* included) stay within one bound that does not grow with the number of
\* turns; the weakest such statement for the NumTurns turns of this model is
\* that they never number as many as the turns.
C23_WorkersBoundedBelowTurns == Cardinality(RunningWorkers) < NumTurns

\* ---------------------------------------------------------------------------
\* Properties of the sanitizer's last steps (SpecClean)

\* The text as the paragraph step leaves it (tinyllama.py 180-218).
AfterParagraphStep(raw_response) ==
    FirstParagraph(DropTrailingQuote(CutAtDialogueMarker(
        StripAssistantPrefix(Strip(raw_response)))))

\* The non-blank lines of a text, stripped, in order.
NonBlankLines(text) == SelectNonBlank(Split(text, "\n"))

\* The text holds a blank line: an empty one or one of whitespace only.
HasBlankLine(text) ==
    LET lines == Split(text, "\n")
    IN  Len(lines) > 1 /\ \E i \in 1..Len(lines) : Strip(lines[i]) = ""

\* What the line step keeps of the n non-blank lines it is given: all of them
\* (and the text as it is) for n <= 3, the first 2 for n > 3; so never more
\* than 3.
LineThreshold ==
    LET lines == NonBlankLines(AfterParagraphStep(output.raw))
        kept  == NonBlankLines(output.cleaned)
    IN  /\ Len(lines) <= 3 => (kept = lines /\ output.cleaned = AfterParagraphStep(output.raw))
        /\ Len(lines) > 3 => (kept = SubSeq(lines, 1, 2) /\ output.cleaned = Join(kept, "\n"))
        /\ Len(kept) <= 3

\* C24 (as stated): of n non-blank lines after the paragraph step the sanitizer
\* keeps all for n <= 3 and the first 2 for n > 3, so its output has at most 3
\* non-blank lines, and it holds no blank line that breaks paragraphs.
C24_LineThresholdNoBlankLine ==
    (output.applied /\ output.raw # "") =>
        /\ LineThreshold
        /\ ~HasBlankLine(output.cleaned)

\* C24 (amended): of n non-blank lines after the paragraph step the sanitizer
\* keeps all for n <= 3 and the first 2 for n > 3, so its output has at most 3
\* non-blank lines, and it holds no empty line (two line breaks in a row); a
\* line of whitespace only is kept when n <= 3.
C24_LineThresholdNoEmptyLine ==
    (output.applied /\ output.raw # "") =>
        /\ LineThreshold
        /\ ~Contains(output.cleaned, "\n\n")
        /\ HasBlankLine(output.cleaned) =>
              Len(NonBlankLines(AfterParagraphStep(output.raw))) <= 3

\* C24 witness: a text of four non-blank lines was cut to its first two.
C24_Witness ==
    /\ output.applied
    /\ input = "Hi\na\nb\nc\nd"
    /\ output.cleaned = "Hi\na"

\* The text as the truncation at the earliest dialogue marker leaves it
\* (tinyllama.py 180-210).
AfterTruncation(raw_response) ==
    CutAtDialogueMarker(StripAssistantPrefix(Strip(raw_response)))

\* How many double quotation marks the text holds.
QuoteCount(text) == Cardinality({i \in 1..Len(text) : CharAt(text, i) = "\""})

\* C25 (as stated): the sanitizer drops a trailing double quotation mark only when it is
\* unmatched: a truncated text that ends with a mark drops it when its marks
\* are odd in number, and keeps it, through to the returned text, when they
\* are even.
C25_MatchedQuoteKept ==
    (output.applied /\ EndsWith(AfterTruncation(output.raw), "\"")) =>
        LET text == AfterTruncation(output.raw)
        IN  IF QuoteCount(text) % 2 = 1
            THEN DropTrailingQuote(text) = Strip(Take(text, Len(text) - 1))
            ELSE /\ DropTrailingQuote(text) = text
                 /\ (~Contains(text, "\n")) => output.cleaned = text

\* C25 (amended): the sanitizer drops one trailing double quotation mark
\* whenever the truncated text ends with one, matched or not: the quote step
\* leaves the text without its last mark, stripped, and for a text of one line
\* that is the returned text.
C25_TrailingQuoteDropped ==
    (output.applied /\ EndsWith(AfterTruncation(output.raw), "\"")) =>
        LET text == AfterTruncation(output.raw)
            rest == Strip(Take(text, Len(text) - 1))
        IN  /\ DropTrailingQuote(text) = rest
            /\ (~Contains(text, "\n")) => output.cleaned = rest

\* C25 witness: a text that ends with the closing mark of a matched pair went
\* through the sanitizer and lost the mark.
C25_Witness ==
    /\ output.applied
    /\ input = "\"Hi\""
    /\ output.cleaned = "\"Hi"

\* ---------------------------------------------------------------------------
\* Properties of the persona guard's rewriting (SpecGuard)

\* Positions i..j of s hold a token written in capitals between the marks
\* open and close: a sound effect *...* or a system tag [...].
IsTokenAt(s, i, j, open, close) ==
    /\ i + 1 < j
    /\ CharAt(s, i) = open
    /\ CharAt(s, j) = close
    /\ \A k \in (i + 1)..(j - 1) : IsUpper(CharAt(s, k))

\* The spans of the sound effects and system tags of s.
TokenSpans(s) ==
    {<<i, j>> \in (1..Len(s)) \X (1..Len(s)) :
        IsTokenAt(s, i, j, "*", "*") \/ IsTokenAt(s, i, j, "[", "]")}

\* C26: whenever the guard rewrites a response (a run of 10 or more capital
\* letters, no exempt token), every sound effect *...* and every system tag
\* [...] of the response stands unchanged in the output, and only capital
\* letters outside these tokens are changed.
C26_TokensPassThroughRewrite ==
    (output.applied /\ HasUpperRun(input, 10) /\ ~HasExemptSound(input)) =>
        /\ Len(output.value) = Len(input)
        /\ \A span \in TokenSpans(input) :
              SubSeq(output.value, span[1], span[2]) = SubSeq(input, span[1], span[2])
        /\ \A k \in 1..Len(input) :
              CharAt(output.value, k) # CharAt(input, k) => IsUpper(CharAt(input, k))

\* ---------------------------------------------------------------------------
\* Properties of loading the model within a turn (Spec)

\* C27: within one turn load_model is invoked at most once; a turn whose load
\* failed has handed nothing to generation (no formatting, no worker), makes
\* no second attempt, and returns the malfunction text.
C27_LoadAtMostOncePerTurn ==
    \A t \in Turns :
        /\ Len(CallsOf(t, {"load"})) <= 1
        /\ LoadFailed(t) =>
              /\ pc[t] # "generate"
              /\ worker[t] = NoWorker
              /\ CallsOf(t, {"format", "guard", "timeout"}) = <<>>
              /\ aiResponse[t] = MalfunctionText
              /\ Returned(t) => chatResponse[t].message = MalfunctionText

\* A turn whose load failed has returned.
C27_Witness ==
    \E t \in Turns : LoadFailed(t) /\ Returned(t) /\ chatResponse[t].message = MalfunctionText

\* ---------------------------------------------------------------------------
\* Properties of turns that overlap on one conversation (SpecTurns)

\* Every turn named the stored conversation, and no turn had returned when
\* another was called.
OverlapOnStored ==
    \A t \in Turns :
        /\ chatRequest[t].conversation_id = IdOf(1)
        /\ chatRequest[t].existed
        /\ chatRequest[t].after = {}

\* The messages that messages holds after its first n.
StoredAfter(messages, n) == SubSeq(messages, n + 1, Len(messages))

\* added is the two messages of every turn, each once, the user message of a
\* turn before the assistant message of that turn.
HoldsEveryExchange(added) ==
    /\ Len(added) = 2 * NumTurns
    /\ \E user, assistant \in [Turns -> 1..(2 * NumTurns)] :
          /\ \A t \in Turns :
                /\ user[t] < assistant[t]
                /\ added[user[t]].role = "user"
                /\ added[user[t]].content = UserMessage(t)
                /\ added[assistant[t]].role = "assistant"
                /\ added[assistant[t]].content = aiResponse[t]
          /\ \A t, u \in Turns :
                t # u => user[t] # user[u] /\ assistant[t] # assistant[u]

\* The role and content of the messages whose append by turn t the Store
\* applied to conversation id, in the order of the appends.
AppliedTo(id, t) ==
    LET applied == SelectSeq(Appends(t), LAMBDA c : c.hit /\ c.id = id)
    IN  [i \in 1..Len(applied) |->
            IF applied[i].op = "append_user"
            THEN <<"user", UserMessage(t)>>
            ELSE <<"assistant", aiResponse[t]>>]

\* added is an interleaving of the messages every turn had applied to
\* conversation id: each of them once, those of one turn in their order.
InterleavesApplied(added, id) ==
    \E owner \in [1..Len(added) -> Turns] :
        \A t \in Turns :
            LET mine == SelectSeq([i \in 1..Len(added) |-> <<i, added[i]>>],
                                  LAMBDA e : owner[e[1]] = t)
            IN  [i \in 1..Len(mine) |-> <<mine[i][2].role, mine[i][2].content>>]
                    = AppliedTo(id, t)

\* No Store operation of turn t failed.
StoreAnswered(t) == \A i \in 1..Len(storeCalls[t]) :
    storeCalls[t][i].op \in {"load", "timeout"} \/ storeCalls[t][i].ok

InferenceFailed(t) == TimedOut(t) \/ LoadFailed(t) \/ GenerationRaised(t)

\* messages ends with the user message of turn t followed by its utterance.
EndsWithExchange(messages, t) ==
    /\ Len(messages) >= 2
    /\ LET user      == messages[Len(messages) - 1]
           assistant == messages[Len(messages)]
       IN  /\ user.role = "user"
           /\ user.content = UserMessage(t)
           /\ assistant.role = "assistant"
           /\ assistant.content = aiResponse[t]

\* Turn u was called after turn t had returned, on the conversation of turn t.
NextTurnOf(t, u) ==
    /\ t \in chatRequest[u].after
    /\ chatRequest[u].conversation_id = chatResponse[t].conversation_id

FollowsFailedLoad(t) == \E u \in chatRequest[t].after : LoadFailed(u)

\* C30: a load failure in one turn does not disable generation for later
\* turns, on a ChatService of their own or on the instance of the failed
\* turn: a later turn whose own load does not fail hands its prompt to
\* generate_response with the model loaded, and does not return the
\* malfunction text.
C30_LoadFailureDoesNotDisableLaterTurns ==
    \A t \in Turns :
        (FollowsFailedLoad(t) /\ Returned(t) /\ ~LoadFailed(t)) =>
            /\ llmLoaded
            /\ CallsOf(t, {"format"}) # <<>>
            /\ worker[t].state # "failed"
            /\ chatResponse[t].message # MalfunctionText

====
